---- MODULE Spec2Model ----
(***************************************************************************)
(* claude-dashboard: the usage cache / fetch coordinators (z.ai, Codex)    *)
(* and the incremental transcript parser, as state machines.               *)
(*                                                                         *)
(* SpecFetch     one provider module (chosen in Init), concurrent callers  *)
(*               of its fetch operation, the network and the clock.        *)
(* SpecParse     concurrent parseTranscript calls for one log file that    *)
(*               its writer appends to.                                    *)
(* SpecParseSeq  one parseTranscript call at a time, for either of two     *)
(*               paths, while the writer appends to and truncates the log. *)
(***************************************************************************)
EXTENDS Integers, Sequences, FiniteSets, TLC

\* ------------------------------------------------------------------ bounds
MaxCalls == 2
MaxTicks == 1
MaxParsers == 2
MaxLines == 2
MaxEntries == 2
MaxRecords == 4
MaxIndexed == 3

\* --------------------------------------------------------------- constants
MsPerSecond == 1000

VARIABLES provider, now, cacheMap, pendingRequests, call, request, netCalls,
          firstAt

fetchVars == <<provider, now, cacheMap, pendingRequests, call, request,
               netCalls, firstAt>>

VARIABLES files, cachedTranscript, parse

parseVars == <<files, cachedTranscript, parse>>

VARIABLES transcript, shown, cliUsage, recommendation, again

queryVars == <<transcript, shown, cliUsage, recommendation, again>>

VARIABLES quota, percent, check

mainVars == <<quota, percent, check>>

vars == <<fetchVars, parseVars, queryVars, mainVars>>

\* ------------------------------------------------------------ value shapes
Null == [tag |-> "null"]
Threw == [tag |-> "threw"]
NoResult == [tag |-> "none"]
Continue == [tag |-> "continue"]

Some(x) == <<x>>
None == <<>>
IsSome(o) == Len(o) = 1
Val(o) == o[1]

Providers == {"zai", "codex"}
Calls == 1..MaxCalls
NoToken == ""
Tokens == {"tokA", "tokB"}
TTLs == {1, 2}
BaseUrl == "https://api.z.ai"
NoBaseUrl == ""

HashToken(tok) == <<"sha256", tok>>

\* mutant of CacheKey: the fingerprint of the credential is left out
CacheKey_NoFingerprint(prov, baseUrl, tok) ==
    IF prov = "zai" THEN <<baseUrl>> ELSE <<"sha256">>

\* zai: `${baseUrl}:${tokenHash}`; codex: tokenHash
CacheKey(prov, baseUrl, tok) ==
    IF prov = "zai" THEN <<baseUrl, HashToken(tok)>> ELSE HashToken(tok)

KeysOf(prov) == {CacheKey(prov, BaseUrl, t) : t \in Tokens}

\* ------------------------------------------------ z.ai percentage helpers
Min(a, b) == IF a < b THEN a ELSE b
Max(a, b) == IF a > b THEN a ELSE b

\* Math.round(num / den) for den > 0  (round half up)
RoundDiv(num, den) == (2 * num + den) \div (2 * den)

\* mutant of clampPercent: the rounded value is not clamped
clampPercent_NoClamp(num, den) == RoundDiv(num, den)

\* clampPercent applied to the rational num/den
clampPercent(num, den) == Min(100, Max(0, RoundDiv(num, den)))

calculateUsagePercent(currentValue, remaining) ==
    LET total == currentValue + remaining
    IN  IF total <= 0 THEN None
        ELSE Some(clampPercent(currentValue * 100, total))

\* mutant of parseUsagePercent: a derived value is preferred to the
\* percentage field
parseUsagePercent_DerivedFirst(limit) ==
    IF IsSome(limit.currentValue) /\ IsSome(limit.remaining)
    THEN calculateUsagePercent(Val(limit.currentValue), Val(limit.remaining))
    ELSE IF IsSome(limit.percentage)
    THEN Some(clampPercent(Val(limit.percentage), 1))
    ELSE IF IsSome(limit.currentValue) /\ IsSome(limit.usage)
            /\ Val(limit.usage) > 0
    THEN Some(clampPercent(Val(limit.currentValue) * 100, Val(limit.usage)))
    ELSE None

parseUsagePercent(limit) ==
    IF IsSome(limit.percentage)
    THEN Some(clampPercent(Val(limit.percentage), 1))
    ELSE IF IsSome(limit.currentValue) /\ IsSome(limit.remaining)
    THEN calculateUsagePercent(Val(limit.currentValue), Val(limit.remaining))
    ELSE IF IsSome(limit.currentValue) /\ IsSome(limit.usage)
            /\ Val(limit.usage) > 0
    THEN Some(clampPercent(Val(limit.currentValue) * 100, Val(limit.usage)))
    ELSE None

\* ------------------------------------------------------ network responses
ZaiLimit(type, pct, usage, cur, rem, reset) ==
    [type |-> type, percentage |-> pct, usage |-> usage,
     currentValue |-> cur, remaining |-> rem, nextResetTime |-> reset]

ZaiLimitsSamples ==
    { <<ZaiLimit("TOKENS_LIMIT", Some(42), None, None, None, Some(7))>>,
      <<ZaiLimit("TOKENS_LIMIT", None, None, Some(30), Some(70), None),
        ZaiLimit("TIME_LIMIT", None, Some(100), Some(25), None, Some(9))>> }

ZaiBodies ==
    { [shape |-> "null", limitsKind |-> "missing", limits |-> <<>>],
      [shape |-> "scalar", limitsKind |-> "missing", limits |-> <<>>],
      [shape |-> "object", limitsKind |-> "missing", limits |-> <<>>],
      [shape |-> "object", limitsKind |-> "notarray", limits |-> <<>>] }
    \cup { [shape |-> "object", limitsKind |-> "array", limits |-> l] :
             l \in ZaiLimitsSamples }

CodexWindow(used, reset) == [used_percent |-> used, reset_at |-> reset]

CodexBody(shape, hasRate, rateKind, hasPlan, plan, prim, sec) ==
    [shape |-> shape, hasRateLimit |-> hasRate, rateLimitKind |-> rateKind,
     hasPlanType |-> hasPlan, plan_type |-> plan,
     primary_window |-> prim, secondary_window |-> sec]

CodexBodies ==
    { CodexBody("null", FALSE, "missing", FALSE, "", None, None),
      CodexBody("object", FALSE, "missing", TRUE, "plus", None, None),
      CodexBody("object", TRUE, "object", FALSE, "", None, None),
      CodexBody("object", TRUE, "null", TRUE, "plus", None, None),
      CodexBody("object", TRUE, "object", TRUE, "plus",
                Some(CodexWindow(15, 7)), None),
      CodexBody("object", TRUE, "object", TRUE, "pro",
                Some(CodexWindow(150, 8)), Some(CodexWindow(5, 9))) }

BodiesOf(prov) == IF prov = "zai" THEN ZaiBodies ELSE CodexBodies

Response(net, ok, json, body) ==
    [net |-> net, ok |-> ok, json |-> json, body |-> body]

AnyBody(prov) == CHOOSE b \in BodiesOf(prov) : b.shape = "null"

Responses(prov) ==
    { Response("timeout", FALSE, "throws", AnyBody(prov)),
      Response("error", FALSE, "throws", AnyBody(prov)),
      Response("ok", FALSE, "throws", AnyBody(prov)),
      Response("ok", TRUE, "throws", AnyBody(prov)) }
    \cup { Response("ok", TRUE, "ok", b) : b \in BodiesOf(prov) }

NoResponse == Response("none", FALSE, "throws", [shape |-> "null"])

\* --------------------------------------------------- fetch: pure helpers
NoEntry == [tag |-> "absent"]

CacheEntry(data, timestamp) == [data |-> data, timestamp |-> timestamp]

\* mutants of CacheValid: the cache is never consulted; the age in ms is
\* compared with the ttl in seconds; an entry of age ttl is still valid
CacheValid_Never(cached, ttlSeconds, t) == FALSE

CacheValid_Millis(cached, ttlSeconds, t) ==
    (t - cached.timestamp) < ttlSeconds

CacheValid_Inclusive(cached, ttlSeconds, t) ==
    (t - cached.timestamp) <= ttlSeconds * MsPerSecond

\* ageSeconds = (Date.now() - cached.timestamp) / 1000;  ageSeconds < ttl
CacheValid(cached, ttlSeconds, t) ==
    (t - cached.timestamp) < ttlSeconds * MsPerSecond

\* mutant of PendingGet: the registry is not consulted
PendingGet_Ignored(pending, key) == 0

\* pendingRequests.get(key): 0 when nothing is registered
PendingGet(pending, key) == pending[key]

\* mutant of CatchReturnNull: the exception is not caught
CatchReturnNull_Rethrow(outcome) == outcome

\* try { ... } catch { return null } around the body of fetchFrom*Api
CatchReturnNull(outcome) == IF outcome = Threw THEN Null ELSE outcome

\* const response = await fetch(url, {signal}); if (!response.ok) return null
AwaitFetch(resp) ==
    IF resp.net # "ok" THEN Threw
    ELSE IF ~resp.ok THEN Null
    ELSE Continue

\* the loop over limits in fetchFromZaiApi
RECURSIVE ZaiParseLimits(_, _)
ZaiParseLimits(limits, acc) ==
    IF limits = <<>> THEN acc
    ELSE LET limit == Head(limits)
             resetTime == limit.nextResetTime
             acc2 ==
               IF limit.type = "TOKENS_LIMIT"
               THEN [acc EXCEPT !.tokensPercent = parseUsagePercent(limit),
                                !.tokensResetAt =
                                   IF IsSome(resetTime) THEN resetTime ELSE @]
               ELSE IF limit.type = "TIME_LIMIT"
               THEN [acc EXCEPT !.mcpPercent = parseUsagePercent(limit),
                                !.mcpResetAt =
                                   IF IsSome(resetTime) THEN resetTime ELSE @]
               ELSE acc
         IN  ZaiParseLimits(Tail(limits), acc2)

\* fetchFromZaiApi after the response arrived: body parsing and validation
ZaiParseBody(resp) ==
    IF resp.json = "throws" THEN Null
    ELSE IF resp.body.shape # "object" THEN Null
    ELSE IF resp.body.limitsKind # "array" THEN Null
    ELSE ZaiParseLimits(resp.body.limits,
                        [model |-> "GLM", tokensPercent |-> None,
                         tokensResetAt |-> None, mcpPercent |-> None,
                         mcpResetAt |-> None])

\* mutant of isValidCodexApiResponse: plan_type is not required
isValidCodexApiResponse_NoPlanType(data) ==
    /\ data.shape = "object"
    /\ data.hasRateLimit
    /\ data.rateLimitKind = "object"

isValidCodexApiResponse(data) ==
    /\ data.shape = "object"
    /\ data.hasRateLimit
    /\ data.hasPlanType
    /\ data.rateLimitKind = "object"

\* fetchFromCodexApi after the response arrived, up to `await getCodexModel()`
CodexParseBody(resp) ==
    IF resp.json = "throws" THEN Threw
    ELSE IF ~isValidCodexApiResponse(resp.body) THEN Null
    ELSE Continue

CodexWindowOf(w) ==
    IF IsSome(w)
    THEN Some([usedPercent |-> Val(w).used_percent, resetAt |-> Val(w).reset_at])
    ELSE None

\* the CodexUsageLimits built from a validated body and the detected model
CodexLimits(body, model) ==
    [model |-> IF IsSome(model) THEN Val(model) ELSE "unknown",
     planType |-> body.plan_type,
     primary |-> CodexWindowOf(body.primary_window),
     secondary |-> CodexWindowOf(body.secondary_window)]

\* mutant of ZaiCacheAfter: the result is stored without the `if (result)`
ZaiCacheAfter_Always(cache, key, result, t) ==
    [cache EXCEPT ![key] = CacheEntry(result, t)]

\* mutant of ZaiCacheAfter: the result is not stored when the task is removed
ZaiCacheAfter_Later(cache, key, result, t) == cache

\* if (result) zaiCacheMap.set(cacheKey, {data: result, timestamp: Date.now()})
ZaiCacheAfter(cache, key, result, t) ==
    IF result # Null /\ result # Threw
    THEN [cache EXCEPT ![key] = CacheEntry(result, t)]
    ELSE cache

\* ------------------------------------------------------- fetch: the state
NoTime == -1

IdleCall ==
    [pc |-> "idle", tok |-> NoToken, ttl |-> 0, awaits |-> 0,
     via |-> "", res |-> NoResult]

NoRequest ==
    [stage |-> "none", tok |-> NoToken, resp |-> NoResponse,
     value |-> NoResult]

KeyOfCall(c) == CacheKey(provider, BaseUrl, call[c].tok)
KeyOfRequest(r) == CacheKey(provider, BaseUrl, request[r].tok)

\* callers are numbered in the order in which they call
NextCaller(c) ==
    /\ call[c].pc = "idle"
    /\ \A d \in Calls : d < c => call[d].pc # "idle"

\* a returned call keeps its credential, the way it took and its result
Done(me, via, result) ==
    [IdleCall EXCEPT !.pc = "done", !.tok = me.tok, !.via = via,
                     !.res = result]

Returned(c, result) ==
    /\ call' = [call EXCEPT ![c] = Done(call[c], "nocred", result)]
    /\ UNCHANGED <<cacheMap, pendingRequests, request, netCalls, firstAt>>

\* The synchronous stretch shared by fetchZaiUsage and fetchCodexUsage:
\* cache check, pending check, and otherwise start of fetchFrom*Api (which
\* runs up to its first await, i.e. issues the request) and registration.
LookupOrFetch(c, tok, ttlSeconds) ==
    LET key == CacheKey(provider, BaseUrl, tok)
        cached == cacheMap[key]
        pending == PendingGet(pendingRequests, key)
        me == [call[c] EXCEPT !.tok = tok, !.ttl = 0]
    IN  /\ firstAt' = IF firstAt[key] = NoTime
                      THEN [firstAt EXCEPT ![key] = now]
                      ELSE firstAt
        /\ IF cached # NoEntry /\ CacheValid(cached, ttlSeconds, now)
           THEN /\ call' = [call EXCEPT ![c] = Done(me, "hit", cached.data)]
                /\ UNCHANGED <<cacheMap, pendingRequests, request, netCalls>>
           ELSE IF pending # 0
           THEN /\ call' = [call EXCEPT ![c] =
                               [me EXCEPT !.pc = "joined", !.awaits = pending]]
                /\ UNCHANGED <<cacheMap, pendingRequests, request, netCalls>>
           ELSE /\ request' = [request EXCEPT ![c] =
                                  [NoRequest EXCEPT !.stage = "fetch",
                                                    !.tok = tok]]
                /\ netCalls' = [netCalls EXCEPT ![key] = @ + 1]
                /\ pendingRequests' = [pendingRequests EXCEPT ![key] = c]
                /\ call' = [call EXCEPT ![c] =
                               [me EXCEPT !.pc = "await", !.awaits = c]]
                /\ UNCHANGED cacheMap

\* mutant of HasCredential: the base URL is not required
HasCredential_TokenOnly(baseUrl, tok) == tok # NoToken

\* if (!baseUrl || !authToken) return null;   if (!auth) return null
HasCredential(baseUrl, tok) == baseUrl # NoBaseUrl /\ tok # NoToken

\* fetchZaiUsage(ttlSeconds), up to its first await or its return
FetchZaiUsage(c, baseUrl, tok, ttlSeconds) ==
    /\ provider = "zai"
    /\ NextCaller(c)
    /\ IF ~HasCredential(baseUrl, tok)
       THEN Returned(c, Null)
       ELSE LookupOrFetch(c, tok, ttlSeconds)
    /\ UNCHANGED <<mainVars, queryVars, parseVars, provider, now>>

\* fetchCodexUsage(ttlSeconds), up to `await getCodexAuth()`
FetchCodexUsage(c, tok, ttlSeconds) ==
    /\ provider = "codex"
    /\ NextCaller(c)
    /\ call' = [call EXCEPT ![c].pc = "auth", ![c].tok = tok,
                            ![c].ttl = ttlSeconds]
    /\ UNCHANGED <<mainVars, queryVars, parseVars, provider, now, cacheMap, pendingRequests, request,
                   netCalls, firstAt>>

\* fetchCodexUsage resumed with the credentials
CodexAfterAuth(c) ==
    /\ provider = "codex"
    /\ call[c].pc = "auth"
    /\ IF ~HasCredential(BaseUrl, call[c].tok)
       THEN Returned(c, Null)
       ELSE LookupOrFetch(c, call[c].tok, call[c].ttl)
    /\ UNCHANGED <<mainVars, queryVars, parseVars, provider, now>>

\* the promise returned by fetchFrom*Api settles (the response is dropped)
Settle(r, value) ==
    request' = [request EXCEPT ![r].stage = "settled", ![r].resp = NoResponse,
                               ![r].value = value]

\* fetchFrom*Api resumed after `await fetch(...)`: the response, a network
\* error or the 5000 ms abort
FetchResponded(r, resp) ==
    /\ request[r].stage = "fetch"
    /\ LET outcome == CatchReturnNull(AwaitFetch(resp))
       IN  IF outcome = Continue
           THEN request' = [request EXCEPT ![r].stage = "json",
                                           ![r].resp = resp]
           ELSE Settle(r, outcome)
    /\ UNCHANGED <<mainVars, queryVars, parseVars, provider, now, cacheMap, pendingRequests, call, netCalls,
                   firstAt>>

\* fetchFromZaiApi resumed after `await response.json()`
ZaiBodyRead(r) ==
    /\ provider = "zai"
    /\ request[r].stage = "json"
    /\ Settle(r, CatchReturnNull(ZaiParseBody(request[r].resp)))
    /\ UNCHANGED <<mainVars, queryVars, parseVars, provider, now, cacheMap, pendingRequests, call, netCalls,
                   firstAt>>

\* fetchFromCodexApi resumed after `await response.json()`
CodexBodyRead(r) ==
    /\ provider = "codex"
    /\ request[r].stage = "json"
    /\ LET outcome == CatchReturnNull(CodexParseBody(request[r].resp))
       IN  IF outcome = Continue
           THEN request' = [request EXCEPT ![r].stage = "model"]
           ELSE Settle(r, outcome)
    /\ UNCHANGED <<mainVars, queryVars, parseVars, provider, now, cacheMap, pendingRequests, call, netCalls,
                   firstAt>>

CodexModels == {None, Some("gpt-5")}

\* fetchFromCodexApi resumed after `await getCodexModel()`: cache and return
CodexModelRead(r, model) ==
    /\ provider = "codex"
    /\ request[r].stage = "model"
    /\ LET limits == CodexLimits(request[r].resp.body, model)
       IN  /\ cacheMap' = [cacheMap EXCEPT ![KeyOfRequest(r)] =
                                             CacheEntry(limits, now)]
           /\ Settle(r, limits)
    /\ UNCHANGED <<mainVars, queryVars, parseVars, provider, now, pendingRequests, call, netCalls, firstAt>>

\* mutant of PendingAfter: the task is unregistered only after a success
PendingAfter_OnSuccess(pending, key, result) ==
    IF result # Null THEN [pending EXCEPT ![key] = 0] ELSE pending

\* finally { pendingRequests.delete(key) }: whatever the result
PendingAfter(pending, key, result) == [pending EXCEPT ![key] = 0]

\* the caller that created the request resumes from `await requestPromise`
OriginatorResumes(c) ==
    /\ call[c].pc = "await"
    /\ request[c].stage = "settled"
    /\ LET key == KeyOfCall(c)
           result == request[c].value
       IN  /\ cacheMap' = IF provider = "zai"
                          THEN ZaiCacheAfter(cacheMap, key, result, now)
                          ELSE cacheMap
           /\ pendingRequests' = PendingAfter(pendingRequests, key, result)
           /\ call' = [call EXCEPT ![c] = Done(call[c], "fetched", result)]
    /\ UNCHANGED <<mainVars, queryVars, parseVars, provider, now, request, netCalls, firstAt>>

\* a caller that was handed the pending promise gets its outcome
JoinedResumes(c) ==
    /\ call[c].pc = "joined"
    /\ request[call[c].awaits].stage = "settled"
    /\ call' = [call EXCEPT ![c] =
                    Done(call[c], "joined",
                         request[call[c].awaits].value)]
    /\ UNCHANGED <<mainVars, queryVars, parseVars, provider, now, cacheMap, pendingRequests, request,
                   netCalls, firstAt>>

\* Date.now() advances by a second
Tick ==
    /\ now < MaxTicks * MsPerSecond
    /\ now' = now + MsPerSecond
    /\ UNCHANGED <<mainVars, queryVars, parseVars, provider, cacheMap, pendingRequests, call, request,
                   netCalls, firstAt>>

\* =================================================== transcript parser
Paths == {"p1", "p2"}
Parsers == 1..MaxParsers
NL == "\n"
NUL == "\\0"

\* ------------------------------------------------ records of the log file
\* block.input, an object: `todos` (missing, not an array, or an array of
\* {content, status}), `subagent_type` and `description` (both optional)
ToolInput(todosKind, todos, subagentType, description) ==
    [todosKind |-> todosKind, todos |-> todos,
     subagent_type |-> subagentType, description |-> description]

EmptyInput == ToolInput("missing", <<>>, None, None)

ToolUseBlockWith(id, name, input) ==
    [type |-> "tool_use", id |-> id, name |-> name, tool_use_id |-> "",
     input |-> input]

ToolUseBlock(id, name) == ToolUseBlockWith(id, name, EmptyInput)

ToolResultBlock(id) ==
    [type |-> "tool_result", id |-> "", name |-> "", tool_use_id |-> id,
     input |-> EmptyInput]

Entry(type, timestamp, content) ==
    [type |-> type, timestamp |-> timestamp, content |-> content]

\* what JSON.parse("null") returns
JsonNull == [type |-> "null", timestamp |-> None, content |-> <<>>]

\* A well-formed record line is two bytes, an opening byte that stands for
\* `{...` with the record's fields and the closing `}`.
RecordOf(byte) ==
    CASE byte = "A" -> Entry("assistant", Some(1), <<ToolUseBlock("t1", "Bash")>>)
      [] byte = "U" -> Entry("user", Some(2), <<ToolResultBlock("t1")>>)

RecordBytes == {"A", "U"}
RecordLine(byte) == <<byte, "}">>
GarbageLine == <<"x">>
NullLine == <<"n">>

\* JSON.parse(line): None when it throws
JsonParse(line) ==
    IF Len(line) = 2 /\ line[1] \in RecordBytes /\ line[2] = "}"
    THEN Some(RecordOf(line[1]))
    ELSE IF line = NullLine THEN Some(JsonNull)
    ELSE None

\* content.split('\n')
RECURSIVE Split(_, _)
Split(content, cur) ==
    IF content = <<>> THEN <<cur>>
    ELSE IF Head(content) = NL THEN <<cur>> \o Split(Tail(content), <<>>)
    ELSE Split(Tail(content), Append(cur, Head(content)))

RECURSIVE ParseLines(_)
ParseLines(lines) ==
    IF lines = <<>> THEN <<>>
    ELSE LET line == Head(lines)
         IN  IF line = <<>> THEN ParseLines(Tail(lines))
             ELSE JsonParse(line) \o ParseLines(Tail(lines))

parseJsonlContent(content) == ParseLines(Split(content, <<>>))

\* new Date(timestamp).getTime()
DateGetTime(timestamp) == timestamp * MsPerSecond

EmptyData ==
    [entries |-> <<>>, sessionStartTime |-> None, toolUses |-> <<>>,
     toolResults |-> {}]

\* mutant of MapSet: a present key keeps its value
MapSet_KeepFirst(map, id, value) ==
    IF \E i \in 1..Len(map) : map[i].id = id THEN map
    ELSE Append(map, [id |-> id, value |-> value])

\* Map.set(id, value): a present key keeps its position, a new one goes last
MapSet(map, id, value) ==
    IF \E i \in 1..Len(map) : map[i].id = id
    THEN [i \in 1..Len(map) |->
            IF map[i].id = id THEN [id |-> id, value |-> value] ELSE map[i]]
    ELSE Append(map, [id |-> id, value |-> value])

MapKeys(map) == {map[i].id : i \in 1..Len(map)}

RECURSIVE IndexBlocks(_, _, _)
IndexBlocks(blocks, entry, data) ==
    IF blocks = <<>> THEN data
    ELSE LET block == Head(blocks)
             d2 ==
               IF entry.type = "assistant" /\ block.type = "tool_use"
                  /\ block.id # "" /\ block.name # ""
               THEN [data EXCEPT !.toolUses =
                       MapSet(@, block.id, [name |-> block.name,
                                            timestamp |-> entry.timestamp])]
               ELSE IF entry.type = "user" /\ block.type = "tool_result"
                       /\ block.tool_use_id # ""
               THEN [data EXCEPT !.toolResults = @ \cup {block.tool_use_id}]
               ELSE data
         IN  IndexBlocks(Tail(blocks), entry, d2)

\* mutant of ProcessEntry: every record with a timestamp sets the start time
ProcessEntry_LastWins(entry, data) ==
    LET pushed == [data EXCEPT !.entries = Append(@, entry)]
        started ==
          IF IsSome(entry.timestamp)
          THEN [pushed EXCEPT !.sessionStartTime =
                                 Some(DateGetTime(Val(entry.timestamp)))]
          ELSE pushed
    IN  IndexBlocks(entry.content, entry, started)

\* one iteration of the loop of processEntries
ProcessEntry(entry, data) ==
    LET pushed == [data EXCEPT !.entries = Append(@, entry)]
        started ==
          IF ~IsSome(pushed.sessionStartTime) /\ IsSome(entry.timestamp)
          THEN [pushed EXCEPT !.sessionStartTime =
                                 Some(DateGetTime(Val(entry.timestamp)))]
          ELSE pushed
    IN  IndexBlocks(entry.content, entry, started)

\* mutant of processEntries: a batch of two records is processed last first
processEntries_LastFirst(entries, existing) ==
    IF Len(entries) = 2
    THEN [data |-> ProcessEntry(entries[1], ProcessEntry(entries[2], existing)),
          threw |-> FALSE]
    ELSE IF Len(entries) = 1
    THEN [data |-> ProcessEntry(entries[1], existing), threw |-> FALSE]
    ELSE [data |-> existing, threw |-> FALSE]

\* processEntries(entries, existing): the data as the loop leaves it, and
\* whether the loop was left by a TypeError (`entry.timestamp` of null,
\* raised after the entry was pushed)
RECURSIVE processEntries(_, _)
processEntries(entries, existing) ==
    IF entries = <<>> THEN [data |-> existing, threw |-> FALSE]
    ELSE LET entry == Head(entries)
         IN  IF entry = JsonNull
             THEN [data |-> [existing EXCEPT !.entries = Append(@, entry)],
                   threw |-> TRUE]
             ELSE processEntries(Tail(entries), ProcessEntry(entry, existing))

\* mutant of ReadBytes: the read starts at byte 0 whatever the offset
ReadBytes_FromStart(file, offset, bytesToRead) ==
    [i \in 1..bytesToRead |-> IF i <= Len(file) THEN file[i] ELSE NUL]

\* fd.read(buffer, 0, bytesToRead, offset) into Buffer.alloc(bytesToRead):
\* bytes the file no longer has stay zero
ReadBytes(file, offset, bytesToRead) ==
    [i \in 1..bytesToRead |->
        IF offset + i <= Len(file) THEN file[offset + i] ELSE NUL]

\* ------------------------------------------------------ parser: the state
IdleParse ==
    [pc |-> "idle", path |-> "", fileSize |-> 0, mode |-> "none",
     offset |-> 0, content |-> <<>>, res |-> "none"]

Tracked(path, size, data) == [path |-> path, size |-> size, data |-> data]

\* the log that is being written, and a finished log of another session
LogPath == "p1"
OtherPath == "p2"
OtherContent == RecordLine("U") \o <<NL>>

Lines == {RecordLine(b) : b \in RecordBytes} \cup {GarbageLine}

NumLines(content) == Cardinality({i \in 1..Len(content) : content[i] = NL})

\* offsets at which a line of the content starts
LineStarts(content) ==
    {0} \cup {i \in 1..Len(content) : content[i] = NL}

\* the writer of the log appends one line
AppendLine(p, line) ==
    /\ NumLines(files[p]) < MaxLines
    /\ files' = [files EXCEPT ![p] = @ \o line \o <<NL>>]
    /\ UNCHANGED <<mainVars, queryVars, fetchVars, cachedTranscript, parse>>

\* the file is truncated (or rotated: replaced by a shorter one)
Truncate(p, n) ==
    /\ n \in LineStarts(files[p])
    /\ n < Len(files[p])
    /\ files' = [files EXCEPT ![p] = SubSeq(@, 1, n)]
    /\ UNCHANGED <<mainVars, queryVars, fetchVars, cachedTranscript, parse>>

\* mutant of CanReuse: the tracked data is reused only if the file grew
CanReuse_Grown(cached, transcriptPath, fileSize) ==
    /\ cached # Null
    /\ cached.path = transcriptPath
    /\ cached.size < fileSize

\* cachedTranscript?.path === transcriptPath && cachedTranscript.size <= fileSize
CanReuse(cached, transcriptPath, fileSize) ==
    /\ cached # Null
    /\ cached.path = transcriptPath
    /\ cached.size <= fileSize

\* mutant of MergeIncremental: the tracked size is not advanced
MergeIncremental_KeepSize(cached, newContent, fileSize) ==
    [cached EXCEPT !.data =
        processEntries(parseJsonlContent(newContent), cached.data).data]

\* lines 112-113: merge the new range into the tracked data, advance size
MergeIncremental(cached, newContent, fileSize) ==
    LET r == processEntries(parseJsonlContent(newContent), cached.data)
    IN  IF r.threw
        THEN [cached EXCEPT !.data = r.data]
        ELSE [cached EXCEPT !.data = r.data, !.size = fileSize]

\* mutant of FullParse: the records are merged into the data tracked before
FullParse_Merging(cached, transcriptPath, content, fileSize) ==
    Tracked(transcriptPath, fileSize,
            processEntries(parseJsonlContent(content),
                           IF cached = Null THEN EmptyData
                           ELSE cached.data).data)

\* lines 120-128: build fresh data and replace the tracked state
FullParse(cached, transcriptPath, content, fileSize) ==
    LET r == processEntries(parseJsonlContent(content), EmptyData)
    IN  IF r.threw THEN cached
        ELSE Tracked(transcriptPath, fileSize, r.data)

\* why the full parse is taken: nothing tracked yet, another path tracked,
\* or the file is smaller than the tracked size
FullBecause(cached, transcriptPath) ==
    IF cached = Null THEN "first"
    ELSE IF cached.path # transcriptPath THEN "path"
    ELSE "shrunk"

FullModes == {"first", "path", "shrunk"}

Threw2(content, data) ==
    processEntries(parseJsonlContent(content), data).threw

Active(c) == parse[c].pc \notin {"idle", "done"}

\* parseTranscript(path) is called: runs up to `await stat(...)`
ParseTranscript(c, path) ==
    /\ ~Active(c)
    /\ cachedTranscript # Null =>
          Len(cachedTranscript.data.entries) <= MaxEntries
    /\ parse' = [parse EXCEPT ![c] =
                    [IdleParse EXCEPT !.pc = "stat", !.path = path]]
    /\ UNCHANGED <<mainVars, queryVars, fetchVars, files, cachedTranscript>>

\* a returned call keeps the branch it took and its result
Finished(me, mode, res) ==
    [IdleParse EXCEPT !.pc = "done", !.mode = mode, !.res = res]

\* mutant of ParseCatch: the exception leaves parseTranscript
ParseCatch_Rethrow(outcome) == outcome

\* lines 101, 131-133: try { ... } catch { return null }
ParseCatch(outcome) == IF outcome = "threw" THEN "null" ELSE outcome

\* stat or open rejects: the catch returns null
IoFails(c) ==
    /\ parse[c].pc \in {"stat", "read"}
    /\ parse' = [parse EXCEPT ![c] =
                    Finished(parse[c], parse[c].mode, ParseCatch("threw"))]
    /\ UNCHANGED <<mainVars, queryVars, fetchVars, files, cachedTranscript>>

\* parseTranscript resumed with the size that stat reports: lines 102-119,
\* and readFromOffset up to its `await open(...)`. When readFromOffset returns '' at once
\* (bytesToRead <= 0) the call resumes in a microtask, before any other
\* callback of the file system, so lines 120-130 belong to the same step.
AfterStat(c) ==
    /\ parse[c].pc = "stat"
    /\ LET me == [parse[c] EXCEPT !.fileSize = Len(files[parse[c].path])]
       IN  IF CanReuse(cachedTranscript, me.path, me.fileSize)
           THEN IF cachedTranscript.size = me.fileSize
                THEN /\ parse' = [parse EXCEPT ![c] =
                                    Finished(me, "same", "data")]
                     /\ UNCHANGED cachedTranscript
                ELSE /\ parse' = [parse EXCEPT
                                    ![c].pc = "read",
                                    ![c].fileSize = me.fileSize,
                                    ![c].mode = "inc",
                                    ![c].offset = cachedTranscript.size]
                     /\ UNCHANGED cachedTranscript
           ELSE IF me.fileSize - 0 <= 0
                THEN /\ cachedTranscript' =
                          FullParse(cachedTranscript, me.path, <<>>,
                                    me.fileSize)
                     /\ parse' = [parse EXCEPT ![c] =
                           Finished(me,
                                    FullBecause(cachedTranscript, me.path),
                                    "data")]
                ELSE /\ parse' = [parse EXCEPT
                           ![c].pc = "read",
                           ![c].fileSize = me.fileSize,
                           ![c].mode = FullBecause(cachedTranscript, me.path),
                           ![c].offset = 0]
                     /\ UNCHANGED cachedTranscript
    /\ UNCHANGED <<mainVars, queryVars, fetchVars, files>>

\* the file system performs open, read and close of readFromOffset
ReadDone(c) ==
    /\ parse[c].pc = "read"
    /\ parse' = [parse EXCEPT
                    ![c].pc = "merge",
                    ![c].content = ReadBytes(files[parse[c].path],
                                             parse[c].offset,
                                             parse[c].fileSize - parse[c].offset)]
    /\ UNCHANGED <<mainVars, queryVars, fetchVars, files, cachedTranscript>>

\* parseTranscript resumed with the content: lines 112-115 or 120-130
AfterRead(c) ==
    /\ parse[c].pc = "merge"
    /\ LET me == parse[c]
       IN  IF me.mode = "inc"
           THEN /\ cachedTranscript' =
                     MergeIncremental(cachedTranscript, me.content, me.fileSize)
                /\ parse' = [parse EXCEPT ![c] =
                      Finished(me, "inc",
                               ParseCatch(
                                 IF Threw2(me.content, cachedTranscript.data)
                                 THEN "threw" ELSE "data"))]
           ELSE /\ cachedTranscript' =
                     FullParse(cachedTranscript, me.path, me.content, me.fileSize)
                /\ parse' = [parse EXCEPT ![c] =
                      Finished(me, me.mode,
                               ParseCatch(
                                 IF Threw2(me.content, EmptyData)
                                 THEN "threw" ELSE "data"))]
    /\ UNCHANGED <<mainVars, queryVars, fetchVars, files>>

\* ============================================ queries on the transcript
\* mutant of getRunningTools: ids with a result are reported as well
getRunningTools_All(tr, dateNow) ==
    [i \in 1..Len(tr.toolUses) |->
        [name |-> tr.toolUses[i].value.name,
         startTime |-> IF IsSome(tr.toolUses[i].value.timestamp)
                       THEN DateGetTime(Val(tr.toolUses[i].value.timestamp))
                       ELSE dateNow]]

\* getRunningTools(transcript); dateNow is what Date.now() returns
getRunningTools(tr, dateNow) ==
    LET Running(use) == use.id \notin tr.toolResults
        running == SelectSeq(tr.toolUses, Running)
    IN  [i \in 1..Len(running) |->
           [name |-> running[i].value.name,
            startTime |-> IF IsSome(running[i].value.timestamp)
                          THEN DateGetTime(Val(running[i].value.timestamp))
                          ELSE dateNow]]

\* mutant of getCompletedToolCount: the tool uses are counted
getCompletedToolCount_Uses(tr) == Len(tr.toolUses)

\* transcript.toolResults.size
getCompletedToolCount(tr) == Cardinality(tr.toolResults)

\* the blocks of all assistant entries, in file order
RECURSIVE AssistantBlocks(_)
AssistantBlocks(entries) ==
    IF entries = <<>> THEN <<>>
    ELSE (IF Head(entries).type = "assistant" THEN Head(entries).content
          ELSE <<>>) \o AssistantBlocks(Tail(entries))

\* the loops of lines 181-189 and 239-253: the tool_use blocks with this id
\* (block.input is an object, hence truthy)
BlocksOf(tr, id) ==
    LET Mine(block) == block.type = "tool_use" /\ block.id = id
    IN  SelectSeq(AssistantBlocks(tr.entries), Mine)

\* mutant of LastTodoWrite: the result of the invocation is not required
RECURSIVE LastTodoWrite_NoResult(_, _, _)
LastTodoWrite_NoResult(uses, tr, last) ==
    IF uses = <<>> THEN last
    ELSE LET use == Head(uses)
             blocks == BlocksOf(tr, use.id)
         IN  LastTodoWrite_NoResult(Tail(uses), tr,
                IF use.value.name = "TodoWrite" /\ blocks # <<>>
                THEN Some(blocks[Len(blocks)].input)
                ELSE last)

\* lines 176-191: lastTodoWrite after the loop over transcript.toolUses
RECURSIVE LastTodoWrite(_, _, _)
LastTodoWrite(uses, tr, last) ==
    IF uses = <<>> THEN last
    ELSE LET use == Head(uses)
             blocks == BlocksOf(tr, use.id)
         IN  LastTodoWrite(Tail(uses), tr,
                IF /\ use.value.name = "TodoWrite"
                   /\ use.id \in tr.toolResults
                   /\ blocks # <<>>
                THEN Some(blocks[Len(blocks)].input)
                ELSE last)

\* todos.find(t => t.status === 'in_progress' || t.status === 'pending')
RECURSIVE FindCurrent(_)
FindCurrent(todos) ==
    IF todos = <<>> THEN None
    ELSE IF Head(todos).status \in {"in_progress", "pending"}
    THEN Some([content |-> Head(todos).content, status |-> Head(todos).status])
    ELSE FindCurrent(Tail(todos))

\* mutant of TodoSummary: every item that is not pending counts as completed
TodoSummary_NotPending(todos) ==
    LET Completed(t) == t.status # "pending"
    IN  [current |-> FindCurrent(todos),
         completed |-> Len(SelectSeq(todos, Completed)),
         total |-> Len(todos)]

\* lines 202-218: the summary of the selected list
TodoSummary(todos) ==
    LET Completed(t) == t.status = "completed"
    IN  [current |-> FindCurrent(todos),
         completed |-> Len(SelectSeq(todos, Completed)),
         total |-> Len(todos)]

extractTodoProgress(tr) ==
    LET lastTodoWrite == LastTodoWrite(tr.toolUses, tr, None)
    IN  IF ~IsSome(lastTodoWrite) THEN Null
        ELSE IF Val(lastTodoWrite).todosKind # "array" THEN Null
        ELSE TodoSummary(Val(lastTodoWrite).todos)

\* lines 243-250: what one block of an active Task adds to `active`
ActiveAgent(block) ==
    [name |-> IF IsSome(block.input.subagent_type)
              THEN Val(block.input.subagent_type) ELSE "Agent",
     description |-> block.input.description]

RECURSIVE ActiveAgents(_)
ActiveAgents(blocks) ==
    IF blocks = <<>> THEN <<>>
    ELSE <<ActiveAgent(Head(blocks))>> \o ActiveAgents(Tail(blocks))

\* mutant of AgentStep: a Task with a result stays in the active list
AgentStep_KeepActive(use, tr, acc) ==
    IF use.value.name # "Task" THEN acc
    ELSE IF use.id \in tr.toolResults
    THEN [active |-> acc.active \o ActiveAgents(BlocksOf(tr, use.id)),
          completed |-> acc.completed + 1]
    ELSE [acc EXCEPT !.active = @ \o ActiveAgents(BlocksOf(tr, use.id))]

\* lines 234-256: one iteration of the loop over transcript.toolUses
AgentStep(use, tr, acc) ==
    IF use.value.name # "Task" THEN acc
    ELSE IF use.id \in tr.toolResults
    THEN [acc EXCEPT !.completed = @ + 1]
    ELSE [acc EXCEPT !.active = @ \o ActiveAgents(BlocksOf(tr, use.id))]

RECURSIVE AgentLoop(_, _, _)
AgentLoop(uses, tr, acc) ==
    IF uses = <<>> THEN acc
    ELSE AgentLoop(Tail(uses), tr, AgentStep(Head(uses), tr, acc))

extractAgentStatus(tr) ==
    AgentLoop(tr.toolUses, tr, [active |-> <<>>, completed |-> 0])

\* --------------------------------------------- the log grows, the views
NotShown == [tag |-> "none"]

ToolIds == <<"t1", "t2", "t3">>

Todo(content, status) == [content |-> content, status |-> status]

TodoLists ==
    { <<Todo("a", "completed"), Todo("b", "in_progress"), Todo("c", "pending")>>,
      <<Todo("a", "pending"), Todo("b", "in_progress")>>,
      <<Todo("a", "completed")>> }

\* name and input of the tool invocations that the log records
Invocations ==
    {<<"Bash", EmptyInput>>}
    \cup {<<"TodoWrite", ToolInput("array", l, None, None)>> : l \in TodoLists}
    \cup {<<"TodoWrite", EmptyInput>>}
    \cup {<<"Task", ToolInput("missing", <<>>, Some("Explore"), Some("find"))>>,
          <<"Task", EmptyInput>>}

\* every invocation has an id of its own: the first one not in the index
FreshIds(tr) ==
    {ToolIds[i] : i \in {i \in 1..Len(ToolIds) :
                            /\ ToolIds[i] \notin MapKeys(tr.toolUses)
                            /\ \A j \in 1..(i - 1) :
                                  ToolIds[j] \in MapKeys(tr.toolUses)}}

\* the records the session can append next: an invocation (stamped with its
\* position in the log, or without a timestamp) or the result of one
NextRecords(tr) ==
    LET stamp == Some(Len(tr.entries) + 1)
    IN  {Entry("assistant", stamp, <<ToolUseBlockWith(id, inv[1], inv[2])>>) :
            id \in FreshIds(tr), inv \in Invocations}
        \cup {Entry("assistant", None, <<ToolUseBlock(id, "Bash")>>) :
                 id \in FreshIds(tr)}
        \cup {Entry("user", stamp, <<ToolResultBlock(id)>>) :
                 id \in MapKeys(tr.toolUses)}

\* a record is appended to the log and merged by the next parse (lines
\* 111-113: processEntries into the tracked data)
Ingest(entry) ==
    /\ Len(transcript.entries) < MaxRecords
    /\ entry \in NextRecords(transcript)
    /\ transcript' = processEntries(<<entry>>, transcript).data
    /\ shown' = NotShown
    /\ UNCHANGED <<fetchVars, parseVars, mainVars, cliUsage, recommendation, again>>

\* the widgets query the parsed transcript
Render ==
    /\ shown = NotShown
    /\ shown' = [running |-> getRunningTools(transcript, now),
                 completedTools |-> getCompletedToolCount(transcript),
                 todo |-> extractTodoProgress(transcript),
                 agents |-> extractAgentStatus(transcript)]
    /\ UNCHANGED <<fetchVars, parseVars, mainVars, transcript, cliUsage, recommendation, again>>

\* =================================================== check-usage: advice
\* CLIUsageInfo, as far as calculateRecommendation reads it
CLIUsageInfo(available, error, fiveHourPercent) ==
    [available |-> available, error |-> error,
     fiveHourPercent |-> fiveHourPercent]

Percents == {0, 30}

UsageInfos ==
    {CLIUsageInfo(a, e, p) :
        a \in BOOLEAN, e \in BOOLEAN, p \in {None} \cup {Some(n) : n \in Percents}}

NoUsage == [tag |-> "none"]
NotComputed == [tag |-> "none"]

\* mutant of IsCandidate: the availability flag is not consulted
IsCandidate_IgnoreAvailable(info) ==
    /\ info # Null
    /\ ~info.error
    /\ IsSome(info.fiveHourPercent)

\* lines 661, 666, 671:
\* usage && usage.available && !usage.error && usage.fiveHourPercent !== null
IsCandidate(info) ==
    /\ info # Null
    /\ info.available
    /\ ~info.error
    /\ IsSome(info.fiveHourPercent)

\* line 656: Claude is left out when the z.ai provider is in use
IsClaudeCandidate(info, zaiProvider) ==
    /\ ~zaiProvider
    /\ ~info.error
    /\ IsSome(info.fiveHourPercent)

Candidate(name, info) == [name |-> name, score |-> Val(info.fiveHourPercent)]

\* lines 652-673: the candidates in the order in which they are pushed
Candidates(claudeUsage, codexUsage, geminiUsage, zaiUsage, zaiProvider) ==
    (IF IsClaudeCandidate(claudeUsage, zaiProvider)
     THEN <<Candidate("claude", claudeUsage)>> ELSE <<>>)
    \o (IF IsCandidate(codexUsage)
        THEN <<Candidate("codex", codexUsage)>> ELSE <<>>)
    \o (IF IsCandidate(geminiUsage)
        THEN <<Candidate("gemini", geminiUsage)>> ELSE <<>>)
    \o (IF IsCandidate(zaiUsage)
        THEN <<Candidate("z.ai", zaiUsage)>> ELSE <<>>)

\* mutant of ComesBefore: the comparator is b.score - a.score
ComesBefore_Descending(a, b) == a.score >= b.score

\* (a, b) => a.score - b.score: a stays before b unless the result is > 0
ComesBefore(a, b) == a.score <= b.score

\* candidates.sort(compare): Array.prototype.sort is stable
RECURSIVE InsertSorted(_, _)
InsertSorted(sorted, c) ==
    IF sorted = <<>> THEN <<c>>
    ELSE LET last == sorted[Len(sorted)]
         IN  IF ComesBefore(last, c) THEN Append(sorted, c)
             ELSE Append(InsertSorted(SubSeq(sorted, 1, Len(sorted) - 1), c),
                         last)

RECURSIVE SortByScore(_, _)
SortByScore(candidates, sorted) ==
    IF candidates = <<>> THEN sorted
    ELSE SortByScore(Tail(candidates), InsertSorted(sorted, Head(candidates)))

DigitChars == <<"0", "1", "2", "3", "4", "5", "6", "7", "8", "9">>

\* `${n}` for a non-negative integer
RECURSIVE NumberToString(_)
NumberToString(n) ==
    IF n < 10 THEN <<DigitChars[n + 1]>>
    ELSE NumberToString(n \div 10) \o <<DigitChars[(n % 10) + 1]>>

\* `${t.checkUsage.lowestUsage} (${best.score}% ${t.checkUsage.used})`
ReasonText(score) ==
    <<"lowestUsage", " ", "(">> \o NumberToString(score)
       \o <<"%", " ", "used", ")">>

\* mutant of calculateRecommendation: no advice when the two lowest tie
calculateRecommendation_TieNoData(claudeUsage, codexUsage, geminiUsage, zaiUsage, zaiProvider) ==
    LET candidates == Candidates(claudeUsage, codexUsage, geminiUsage,
                                 zaiUsage, zaiProvider)
        sorted == SortByScore(candidates, <<>>)
    IN  IF Len(candidates) = 0
           \/ (Len(sorted) > 1 /\ sorted[1].score = sorted[2].score)
        THEN [name |-> None, reason |-> <<"noData">>]
        ELSE [name |-> Some(sorted[1].name),
              reason |-> ReasonText(sorted[1].score)]

calculateRecommendation(claudeUsage, codexUsage, geminiUsage, zaiUsage, zaiProvider) ==
    LET candidates == Candidates(claudeUsage, codexUsage, geminiUsage,
                                 zaiUsage, zaiProvider)
    IN  IF Len(candidates) = 0
        THEN [name |-> None, reason |-> <<"noData">>]
        ELSE LET best == SortByScore(candidates, <<>>)[1]
             IN  [name |-> Some(best.name), reason |-> ReasonText(best.score)]

\* check-usage computes its advice from the four usage reports
CalculateRecommendation ==
    /\ recommendation = NotComputed
    /\ recommendation' =
          calculateRecommendation(cliUsage.claude, cliUsage.codex,
                                  cliUsage.gemini, cliUsage.zai,
                                  cliUsage.zaiProvider)
    /\ UNCHANGED <<fetchVars, parseVars, mainVars, transcript, shown, cliUsage, again>>

\* the advice is computed once more from the same reports
CalculateAgain ==
    /\ recommendation # NotComputed
    /\ again = NotComputed
    /\ again' =
          calculateRecommendation(cliUsage.claude, cliUsage.codex,
                                  cliUsage.gemini, cliUsage.zai,
                                  cliUsage.zaiProvider)
    /\ UNCHANGED <<fetchVars, parseVars, mainVars, transcript, shown, cliUsage,
                   recommendation>>

\* ------------------------------------------------------- specifications
\* the modules as loaded: empty maps, nothing tracked, no call made; the
\* process runs as one provider
FetchInit ==
    /\ provider \in Providers
    /\ now = 0
    /\ cacheMap = [k \in KeysOf(provider) |-> NoEntry]
    /\ pendingRequests = [k \in KeysOf(provider) |-> 0]
    /\ call = [c \in Calls |-> IdleCall]
    /\ request = [c \in Calls |-> NoRequest]
    /\ netCalls = [k \in KeysOf(provider) |-> 0]
    /\ firstAt = [k \in KeysOf(provider) |-> NoTime]
    /\ files = [p \in Paths |-> IF p = OtherPath THEN OtherContent ELSE <<>>]
    /\ cachedTranscript = Null
    /\ parse = [c \in Parsers |-> IdleParse]
    /\ transcript = EmptyData
    /\ shown = NotShown
    /\ cliUsage = NoUsage
    /\ recommendation = NotComputed
    /\ again = NotComputed
    /\ quota = NotComputed
    /\ percent = NotComputed
    /\ check = NotComputed

ParseInit ==
    /\ provider = "zai"
    /\ now = 0
    /\ cacheMap = [k \in KeysOf(provider) |-> NoEntry]
    /\ pendingRequests = [k \in KeysOf(provider) |-> 0]
    /\ call = [c \in Calls |-> IdleCall]
    /\ request = [c \in Calls |-> NoRequest]
    /\ netCalls = [k \in KeysOf(provider) |-> 0]
    /\ firstAt = [k \in KeysOf(provider) |-> NoTime]
    /\ files = [p \in Paths |-> IF p = OtherPath THEN OtherContent ELSE <<>>]
    /\ cachedTranscript = Null
    /\ parse = [c \in Parsers |-> IdleParse]
    /\ transcript = EmptyData
    /\ shown = NotShown
    /\ cliUsage = NoUsage
    /\ recommendation = NotComputed
    /\ again = NotComputed
    /\ quota = NotComputed
    /\ percent = NotComputed
    /\ check = NotComputed

\* a session whose log is empty and not rendered yet
ViewInit ==
    /\ provider = "zai"
    /\ now = (MaxRecords + 5) * MsPerSecond
    /\ cacheMap = [k \in KeysOf(provider) |-> NoEntry]
    /\ pendingRequests = [k \in KeysOf(provider) |-> 0]
    /\ call = [c \in Calls |-> IdleCall]
    /\ request = [c \in Calls |-> NoRequest]
    /\ netCalls = [k \in KeysOf(provider) |-> 0]
    /\ firstAt = [k \in KeysOf(provider) |-> NoTime]
    /\ files = [p \in Paths |-> IF p = OtherPath THEN OtherContent ELSE <<>>]
    /\ cachedTranscript = Null
    /\ parse = [c \in Parsers |-> IdleParse]
    /\ transcript = EmptyData
    /\ shown = NotShown
    /\ cliUsage = NoUsage
    /\ recommendation = NotComputed
    /\ again = NotComputed
    /\ quota = NotComputed
    /\ percent = NotComputed
    /\ check = NotComputed

\* check-usage holds the four usage reports (Codex, Gemini and z.ai are
\* null when not installed) and knows whether the z.ai provider is in use
RecommendInit ==
    /\ provider = "zai"
    /\ now = 0
    /\ cacheMap = [k \in KeysOf(provider) |-> NoEntry]
    /\ pendingRequests = [k \in KeysOf(provider) |-> 0]
    /\ call = [c \in Calls |-> IdleCall]
    /\ request = [c \in Calls |-> NoRequest]
    /\ netCalls = [k \in KeysOf(provider) |-> 0]
    /\ firstAt = [k \in KeysOf(provider) |-> NoTime]
    /\ files = [p \in Paths |-> IF p = OtherPath THEN OtherContent ELSE <<>>]
    /\ cachedTranscript = Null
    /\ parse = [c \in Parsers |-> IdleParse]
    /\ transcript = EmptyData
    /\ shown = NotShown
    /\ cliUsage \in [claude : UsageInfos,
                     codex : UsageInfos \cup {Null},
                     gemini : UsageInfos \cup {Null},
                     zai : UsageInfos \cup {Null},
                     zaiProvider : BOOLEAN]
    /\ recommendation = NotComputed
    /\ again = NotComputed
    /\ quota = NotComputed
    /\ percent = NotComputed
    /\ check = NotComputed

NextFetch ==
    \/ \E c \in Calls, baseUrl \in {BaseUrl, NoBaseUrl},
          tok \in Tokens \cup {NoToken}, ttl \in TTLs :
          FetchZaiUsage(c, baseUrl, tok, ttl)
    \/ \E c \in Calls, tok \in Tokens \cup {NoToken}, ttl \in TTLs :
          FetchCodexUsage(c, tok, ttl)
    \/ \E c \in Calls : CodexAfterAuth(c)
    \/ \E r \in Calls, resp \in Responses(provider) : FetchResponded(r, resp)
    \/ \E r \in Calls : ZaiBodyRead(r)
    \/ \E r \in Calls : CodexBodyRead(r)
    \/ \E r \in Calls, model \in CodexModels : CodexModelRead(r, model)
    \/ \E c \in Calls : OriginatorResumes(c)
    \/ \E c \in Calls : JoinedResumes(c)
    \/ Tick

SpecFetch == FetchInit /\ [][NextFetch]_vars

\* the ways a request can end: abort after 5000 ms, network error, non-2xx
\* status, unreadable body, and every readable body
LiveResponses(prov) ==
    {resp \in Responses(prov) : resp.json = "throws" \/ resp.body.shape = "object"}

\* callers that share one account, with or without credential
NextFetchLive ==
    \/ \E c \in Calls, tok \in {"tokA", NoToken} : FetchZaiUsage(c, BaseUrl, tok, 1)
    \/ \E c \in Calls, tok \in {"tokA", NoToken} : FetchCodexUsage(c, tok, 1)
    \/ \E c \in Calls : CodexAfterAuth(c)
    \/ \E r \in Calls, resp \in LiveResponses(provider) : FetchResponded(r, resp)
    \/ \E r \in Calls : ZaiBodyRead(r)
    \/ \E r \in Calls : CodexBodyRead(r)
    \/ \E r \in Calls, model \in CodexModels : CodexModelRead(r, model)
    \/ \E c \in Calls : OriginatorResumes(c)
    \/ \E c \in Calls : JoinedResumes(c)
    \/ Tick

\* the network answers or the 5000 ms abort fires, and a continuation whose
\* promise has settled is run
FetchFairness ==
    /\ WF_vars(\E r \in Calls, resp \in LiveResponses(provider) :
                  FetchResponded(r, resp))
    /\ WF_vars(\E r \in Calls : ZaiBodyRead(r))
    /\ WF_vars(\E r \in Calls : CodexBodyRead(r))
    /\ WF_vars(\E r \in Calls, model \in CodexModels : CodexModelRead(r, model))
    /\ WF_vars(\E c \in Calls : CodexAfterAuth(c))
    /\ WF_vars(\E c \in Calls : OriginatorResumes(c))
    /\ WF_vars(\E c \in Calls : JoinedResumes(c))

SpecFetchLive == FetchInit /\ [][NextFetchLive]_vars /\ FetchFairness

WriterStep ==
    \/ \E line \in Lines : AppendLine(LogPath, line)
    \/ \E n \in 0..(3 * MaxLines) : Truncate(LogPath, n)

ParserStep(C) ==
    \/ \E c \in C : IoFails(c)
    \/ \E c \in C : AfterStat(c)
    \/ \E c \in C : ReadDone(c)
    \/ \E c \in C : AfterRead(c)

\* concurrent parseTranscript calls for the log while its writer appends
NextParse ==
    \/ \E c \in Parsers : ParseTranscript(c, LogPath)
    \/ ParserStep(Parsers)
    \/ \E line \in Lines : AppendLine(LogPath, line)

SpecParse == ParseInit /\ [][NextParse]_vars

\* one parseTranscript call at a time
NextParseSeq ==
    \/ \E p \in Paths : ParseTranscript(1, p)
    \/ ParserStep({1})
    \/ WriterStep

SpecParseSeq == ParseInit /\ [][NextParseSeq]_vars

\* one parseTranscript call at a time for a log whose lines may also be
\* the JSON text `null`
NextParseAny ==
    \/ ParseTranscript(1, LogPath)
    \/ ParserStep({1})
    \/ \E line \in Lines \cup {NullLine} : AppendLine(LogPath, line)

SpecParseAny == ParseInit /\ [][NextParseAny]_vars

\* the session log grows record by record and the widgets are rendered
NextView ==
    \/ \E entry \in NextRecords(transcript) : Ingest(entry)
    \/ Render

SpecView == ViewInit /\ [][NextView]_vars

NextRecommend == CalculateRecommendation \/ CalculateAgain

SpecRecommend == RecommendInit /\ [][NextRecommend]_vars

\* ======================================================= fetch: properties
\* the step in which call c, made with (tok, ttlSeconds), consults the cache
LookupBy(c, tok, ttlSeconds) ==
    \/ FetchZaiUsage(c, BaseUrl, tok, ttlSeconds)
    \/ CodexAfterAuth(c) /\ call[c].tok = tok /\ call[c].ttl = ttlSeconds

InFlight(r) == request[r].stage \in {"fetch", "json", "model"}

FetchesFor(k) == {r \in Calls : InFlight(r) /\ KeyOfRequest(r) = k}

\* C1: for every cache key at most one fetch is in flight at any moment, and
\* a caller that was handed a pending task was handed the one of its key.
C1_AtMostOneFetchPerKey ==
    /\ \A k \in KeysOf(provider) : Cardinality(FetchesFor(k)) <= 1
    /\ \A c \in Calls :
          call[c].pc = "joined" =>
             /\ request[call[c].awaits].stage # "none"
             /\ KeyOfRequest(call[c].awaits) = KeyOfCall(c)

C1_Witness ==
    \E c \in Calls, r \in Calls :
       /\ c # r
       /\ call[c].pc = "joined"
       /\ call[c].awaits = r
       /\ request[r].stage = "fetch"
       /\ call[r].pc = "await"

\* C4: a lookup that finds an entry younger than ttlSeconds returns the
\* entry's data and changes neither the cache, the registry, the requests
\* nor the number of network calls.
C4_CacheHit ==
    [][\A c \in Calls, tok \in Tokens, ttl \in TTLs :
         LET k == CacheKey(provider, BaseUrl, tok)
         IN  (/\ LookupBy(c, tok, ttl)
              /\ cacheMap[k] # NoEntry
              /\ now - cacheMap[k].timestamp < ttl * MsPerSecond)
             => /\ call'[c].pc = "done"
                /\ call'[c].res = cacheMap[k].data
                /\ cacheMap' = cacheMap
                /\ pendingRequests' = pendingRequests
                /\ request' = request
                /\ netCalls' = netCalls]_vars

C4_Witness ==
    \E c \in Calls :
       /\ call[c].pc = "done"
       /\ call[c].via = "hit"
       /\ cacheMap[KeyOfCall(c)] # NoEntry
       /\ call[c].res = cacheMap[KeyOfCall(c)].data
       /\ netCalls[KeyOfCall(c)] = 1

\* C5 as stated: a call that looks up a key less than ttlSeconds after the
\* first call for that key, one network call having been made for it, makes
\* no further network call.
C5_TwoCallsOneFetch ==
    [][\A c \in Calls, tok \in Tokens, ttl \in TTLs :
         LET k == CacheKey(provider, BaseUrl, tok)
         IN  (/\ LookupBy(c, tok, ttl)
              /\ netCalls[k] = 1
              /\ now - firstAt[k] < ttl * MsPerSecond)
             => netCalls'[k] = 1]_vars

\* C5 amended: the same, provided the first call's fetch has not failed,
\* i.e. it is still registered or it has left an entry in the cache.
C5_TwoCallsOneFetchUnlessFailed ==
    [][\A c \in Calls, tok \in Tokens, ttl \in TTLs :
         LET k == CacheKey(provider, BaseUrl, tok)
         IN  (/\ LookupBy(c, tok, ttl)
              /\ netCalls[k] = 1
              /\ now - firstAt[k] < ttl * MsPerSecond
              /\ (pendingRequests[k] # 0 \/ cacheMap[k] # NoEntry))
             => netCalls'[k] = 1]_vars

C5_Witness ==
    \E c \in Calls, d \in Calls :
       /\ c # d
       /\ call[c].pc = "done" /\ call[c].via = "fetched"
       /\ call[d].pc = "done" /\ call[d].via = "hit"
       /\ call[c].tok = call[d].tok
       /\ call[d].res = call[c].res
       /\ netCalls[KeyOfCall(c)] = 1

\* C6: a lookup that finds an entry of age >= ttlSeconds and nothing in
\* flight issues a network call and registers it; a fetch that succeeds
\* stores its result in the cache with the time of storing.
C6_ExpiredRefetch ==
    [][/\ \A c \in Calls, tok \in Tokens, ttl \in TTLs :
            LET k == CacheKey(provider, BaseUrl, tok)
            IN  (/\ LookupBy(c, tok, ttl)
                 /\ cacheMap[k] # NoEntry
                 /\ now - cacheMap[k].timestamp >= ttl * MsPerSecond
                 /\ pendingRequests[k] = 0)
                => /\ netCalls'[k] = netCalls[k] + 1
                   /\ request'[c].stage = "fetch"
                   /\ pendingRequests'[k] = c
       /\ \A c \in Calls :
            (/\ call[c].pc = "await"
             /\ call'[c].pc = "done"
             /\ call'[c].res # Null)
            => /\ cacheMap'[KeyOfCall(c)] # NoEntry
               /\ cacheMap'[KeyOfCall(c)].data = call'[c].res
               /\ provider = "zai" => cacheMap'[KeyOfCall(c)].timestamp = now
       /\ \A r \in Calls :
            (request[r].stage = "model" /\ request'[r].stage = "settled")
            => cacheMap'[KeyOfRequest(r)] = CacheEntry(request'[r].value, now)
      ]_vars

C6_Witness ==
    \E c \in Calls, d \in Calls :
       /\ c < d
       /\ call[c].pc = "done" /\ call[c].via = "fetched"
       /\ call[d].pc = "done" /\ call[d].via = "fetched"
       /\ call[c].tok = call[d].tok
       /\ call[c].res # Null /\ call[d].res # Null
       /\ call[c].res # call[d].res
       /\ cacheMap[KeyOfCall(d)] = CacheEntry(call[d].res, now)
       /\ now > 0

\* what the spec lists as failures of a fetch
IsFailure(resp) ==
    \/ resp.net # "ok"
    \/ ~resp.ok
    \/ resp.json = "throws"
    \/ resp.body.shape # "object"
    \/ provider = "zai" /\ resp.body.limitsKind # "array"
    \/ provider = "codex" /\ (~resp.body.hasRateLimit \/ ~resp.body.hasPlanType
                               \/ resp.body.rateLimitKind # "object")

\* C7: every failure of a fetch settles the pending task with null, every
\* caller awaiting the task returns what it settled with, and nothing throws.
C7_FailureReturnsNull ==
    [][/\ \A r \in Calls, resp \in Responses(provider) :
            (FetchResponded(r, resp) /\ IsFailure(resp))
            => (request'[r].stage = "settled" => request'[r].value = Null)
       /\ \A r \in Calls :
            (/\ request[r].stage = "json"
             /\ request'[r].stage # "json"
             /\ IsFailure(request[r].resp))
            => (request'[r].stage = "settled" /\ request'[r].value = Null)
       /\ \A c \in Calls :
            (call[c].pc \in {"await", "joined"} /\ call'[c].pc = "done")
            => call'[c].res = request[call[c].awaits].value
       /\ \A c \in Calls : call'[c].res # Threw /\ request'[c].value # Threw
      ]_vars

C7_Witness ==
    \E c \in Calls, d \in Calls :
       /\ call[c].pc = "done" /\ call[c].via = "fetched"
       /\ call[d].pc = "done" /\ call[d].via = "joined"
       /\ call[c].tok = call[d].tok
       /\ call[c].res = Null /\ call[d].res = Null

\* C8: the cache map changes only by a fetch that succeeded storing its own
\* result; in particular a failed fetch leaves every entry as it was, and a
\* lookup that finds no valid entry and nothing in flight fetches afresh.
C8_FailureKeepsCache ==
    [][/\ \A k \in KeysOf(provider) :
            cacheMap'[k] # cacheMap[k]
            => \E r \in Calls :
                  /\ KeyOfRequest(r) = k
                  /\ request'[r].stage = "settled"
                  /\ request'[r].value \notin {Null, Threw, NoResult}
                  /\ cacheMap'[k].data = request'[r].value
       /\ \A c \in Calls :
            (call[c].pc = "await" /\ call'[c].pc = "done"
               /\ call'[c].res = Null)
            => cacheMap' = cacheMap
       /\ \A c \in Calls, tok \in Tokens, ttl \in TTLs :
            LET k == CacheKey(provider, BaseUrl, tok)
            IN  (/\ LookupBy(c, tok, ttl)
                 /\ pendingRequests[k] = 0
                 /\ (cacheMap[k] = NoEntry
                       \/ now - cacheMap[k].timestamp >= ttl * MsPerSecond))
                => netCalls'[k] = netCalls[k] + 1
      ]_vars

C8_Witness ==
    \E c \in Calls, d \in Calls :
       /\ provider = "zai"
       /\ c < d
       /\ call[c].pc = "done" /\ call[c].via = "fetched"
       /\ call[d].pc = "done" /\ call[d].via = "fetched"
       /\ call[c].tok = call[d].tok
       /\ call[c].res # Null
       /\ call[d].res = Null
       /\ cacheMap[KeyOfCall(c)] # NoEntry
       /\ cacheMap[KeyOfCall(c)].data = call[c].res

\* ====================================================== parser: properties
\* the step in which call c returns from the merge or from the full parse
Completes(c) ==
    /\ parse[c].pc \in {"stat", "merge"}
    /\ parse'[c].pc = "done"

\* the file size call c works with: the one stat reports in this step, or
\* the one it reported to the call before
ObservedSize(c) ==
    IF parse[c].pc = "stat" THEN Len(files[parse[c].path])
    ELSE parse[c].fileSize

FreshData(content) ==
    processEntries(parseJsonlContent(content), EmptyData).data

IsRecordLine(line) ==
    Len(line) = 2 /\ line[1] \in RecordBytes /\ line[2] = "}"

\* the content is a run of well-formed record lines, each ended by a newline
WellFormedLines(content) ==
    LET ls == Split(content, <<>>)
    IN  /\ ls[Len(ls)] = <<>>
        /\ \A i \in 1..(Len(ls) - 1) : IsRecordLine(ls[i])

RecordsIn(content) ==
    LET ls == Split(content, <<>>)
    IN  [i \in 1..(Len(ls) - 1) |-> RecordOf(ls[i][1])]

ToolUseIds(records) ==
    {records[i].content[j].id :
        <<i, j>> \in {<<i, j>> \in (1..Len(records)) \X (1..1) :
                        /\ records[i].type = "assistant"
                        /\ records[i].content[j].type = "tool_use"}}

ToolResultIds(records) ==
    {records[i].content[j].tool_use_id :
        <<i, j>> \in {<<i, j>> \in (1..Len(records)) \X (1..1) :
                        /\ records[i].type = "user"
                        /\ records[i].content[j].type = "tool_result"}}

\* C2 as stated, for concurrent calls on one append-only log: the tracked
\* data is what one parse of the first `size` bytes of the file gives (so no
\* record is merged twice), and the tracked offset never decreases.
C2_ConcurrentAsSequential ==
    [][/\ cachedTranscript' # Null =>
            cachedTranscript'.data =
               FreshData(SubSeq(files'[LogPath], 1, cachedTranscript'.size))
       /\ (cachedTranscript # Null /\ cachedTranscript' # Null) =>
            cachedTranscript'.size >= cachedTranscript.size]_vars

\* C3: an incremental parse reads exactly the bytes from the tracked offset
\* to the size it observed; when these are N well-formed lines the entries
\* grow by exactly those N records, the indexed tool uses and results are
\* kept and extended by those of the new records, and the offset becomes
\* the observed size.
C3_IncrementalAppend ==
    [][\A c \in Parsers :
         /\ (parse[c].pc = "read" /\ parse'[c].pc = "merge"
                /\ parse[c].mode = "inc"
                /\ Len(files[parse[c].path]) >= parse[c].fileSize)
            => /\ parse[c].offset = cachedTranscript.size
               /\ parse'[c].content =
                     SubSeq(files[parse[c].path], cachedTranscript.size + 1,
                            parse[c].fileSize)
         /\ (Completes(c) /\ parse[c].mode = "inc"
                /\ WellFormedLines(parse[c].content))
            => LET old == cachedTranscript.data
                   new == cachedTranscript'.data
                   recs == RecordsIn(parse[c].content)
               IN  /\ Len(new.entries) =
                        Len(old.entries) + NumLines(parse[c].content)
                   /\ new.entries = old.entries \o recs
                   /\ MapKeys(new.toolUses) =
                        MapKeys(old.toolUses) \cup ToolUseIds(recs)
                   /\ new.toolResults =
                        old.toolResults \cup ToolResultIds(recs)
                   /\ cachedTranscript'.size = parse[c].fileSize
                   /\ cachedTranscript'.path = cachedTranscript.path
                   /\ parse'[c].res = "data"]_vars

C3_Witness ==
    /\ parse[1].pc = "done"
    /\ parse[1].mode = "inc"
    /\ parse[1].res = "data"
    /\ cachedTranscript # Null
    /\ cachedTranscript.path = LogPath
    /\ files[LogPath] = RecordLine("A") \o <<NL>> \o RecordLine("U") \o <<NL>>
    /\ cachedTranscript.size = Len(files[LogPath])
    /\ Len(cachedTranscript.data.entries) = 2
    /\ MapKeys(cachedTranscript.data.toolUses) = {"t1"}
    /\ cachedTranscript.data.toolResults = {"t1"}

\* C9: a call that finds the file smaller than the tracked offset, or
\* another path tracked, reads from byte 0; when it returns the state, the
\* tracked state is the requested path, the size it observed and exactly the
\* records of the content it read.
C9_DiscardAndReparse ==
    [][\A c \in Parsers :
         /\ (/\ parse[c].pc = "stat"
              /\ parse'[c].pc # "stat"
              /\ parse'[c].res # "null"
              /\ cachedTranscript # Null
              /\ (ObservedSize(c) < cachedTranscript.size
                    \/ parse[c].path # cachedTranscript.path))
            => /\ parse'[c].mode \in FullModes
               /\ parse'[c].offset = 0
               /\ parse'[c].pc = "done" =>
                     /\ ObservedSize(c) = 0
                     /\ cachedTranscript' =
                           Tracked(parse[c].path, 0, EmptyData)
         /\ (/\ parse[c].pc = "read" /\ parse'[c].pc = "merge"
              /\ parse[c].mode \in FullModes
              /\ Len(files[parse[c].path]) = parse[c].fileSize)
            => parse'[c].content = files[parse[c].path]
         /\ (Completes(c) /\ parse[c].mode \in FullModes
                /\ parse'[c].res = "data")
            => cachedTranscript' =
                  Tracked(parse[c].path, parse[c].fileSize,
                          FreshData(parse[c].content))]_vars

C9_Witness ==
    /\ parse[1].pc = "done"
    /\ parse[1].mode = "shrunk"
    /\ parse[1].res = "data"
    /\ cachedTranscript.path = LogPath
    /\ cachedTranscript.size = Len(files[LogPath])
    /\ Len(cachedTranscript.data.entries) = 1
    /\ cachedTranscript.data = FreshData(files[LogPath])

\* C10: with one call at a time the tracked offset changes only when a call
\* returns the state, and then it is the file size that call observed; it
\* decreases only if that call found another path tracked or the file
\* smaller than the tracked offset.
C10_OffsetMonotone ==
    [][/\ cachedTranscript' # cachedTranscript =>
            \E c \in Parsers : Completes(c)
       /\ \A c \in Parsers :
            (Completes(c) /\ parse'[c].res = "data")
            => /\ cachedTranscript'.size = ObservedSize(c)
               /\ cachedTranscript'.path = parse[c].path
       /\ \A c \in Parsers :
            (Completes(c) /\ cachedTranscript # Null
               /\ cachedTranscript'.size < cachedTranscript.size)
            => \/ parse[c].path # cachedTranscript.path
               \/ ObservedSize(c) < cachedTranscript.size]_vars

C10_Witness ==
    /\ parse[1].pc = "done"
    /\ parse[1].mode = "inc"
    /\ cachedTranscript.path = LogPath
    /\ cachedTranscript.size = Len(files[LogPath])
    /\ cachedTranscript.size >= 5

\* C11: a call for the tracked path that finds the file size equal to the
\* tracked offset returns the tracked data at once, without reading, and
\* leaves the tracked state (entries, indices, offset) and the file as
\* they are.
C11_UnchangedFileNoRead ==
    [][\A c \in Parsers :
         (/\ parse[c].pc = "stat"
          /\ parse'[c].pc # "stat"
          /\ ~IoFails(c)
          /\ cachedTranscript # Null
          /\ cachedTranscript.path = parse[c].path
          /\ cachedTranscript.size = Len(files[parse[c].path]))
         => /\ parse'[c].pc = "done"
            /\ parse'[c].mode = "same"
            /\ parse'[c].res = "data"
            /\ parse'[c].content = <<>>
            /\ cachedTranscript' = cachedTranscript
            /\ files' = files]_vars

C11_Witness ==
    /\ parse[1].pc = "done"
    /\ parse[1].mode = "same"
    /\ parse[1].res = "data"
    /\ cachedTranscript # Null
    /\ cachedTranscript.path = LogPath
    /\ cachedTranscript.size = Len(files[LogPath])
    /\ Len(cachedTranscript.data.entries) >= 1

\* C12 as stated: a call that got the content it asked for returns the state,
\* and the entries it added are exactly the non-empty lines of that content
\* that parse, in file order, in the incremental and in the full path.
C12_MalformedLinesSkipped ==
    [][\A c \in Parsers :
         (parse[c].pc = "merge" /\ parse'[c].pc = "done")
         => /\ parse'[c].res = "data"
            /\ cachedTranscript' # Null
            /\ cachedTranscript'.data.entries =
                  (IF parse[c].mode = "inc"
                   THEN cachedTranscript.data.entries ELSE <<>>)
                  \o parseJsonlContent(parse[c].content)]_vars

\* C13: a call whose stat or read is rejected returns null and leaves the
\* tracked state alone, no call ever ends with an exception, and a call
\* that finds an existing empty file returns a state with zero entries.
C13_UnreadableGivesNull ==
    [][\A c \in Parsers :
         /\ IoFails(c)
            => /\ parse'[c].pc = "done"
               /\ parse'[c].res = "null"
               /\ cachedTranscript' = cachedTranscript
         /\ parse'[c].res \in {"none", "null", "data"}
         /\ (/\ parse[c].pc = "stat"
             /\ AfterStat(c)
             /\ Len(files[parse[c].path]) = 0)
            => /\ parse'[c].pc = "done"
               /\ parse'[c].res = "data"
               /\ cachedTranscript' # Null
               /\ cachedTranscript'.path = parse[c].path
               /\ cachedTranscript'.data.entries = <<>>]_vars

C13_Witness ==
    /\ parse[1].pc = "done"
    /\ parse[1].res = "null"
    /\ cachedTranscript # Null
    /\ cachedTranscript.path = LogPath
    /\ cachedTranscript.size = 0
    /\ cachedTranscript.data.entries = <<>>
    /\ files[LogPath] = <<>>

\* ------------------------------------------------ the views of the log
\* the ids of the index that have no result (lines 144-145)
RunningIds(tr) == MapKeys(tr.toolUses) \ tr.toolResults

\* the position in the log of the record that invokes `id`
InvocationAt(tr, id) ==
    CHOOSE i \in 1..Len(tr.entries) :
        /\ tr.entries[i].type = "assistant"
        /\ \E k \in 1..Len(tr.entries[i].content) :
              /\ tr.entries[i].content[k].type = "tool_use"
              /\ tr.entries[i].content[k].id = id

\* the tool_use block of that record
InvocationOf(tr, id) ==
    LET entry == tr.entries[InvocationAt(tr, id)]
    IN  entry.content[CHOOSE k \in 1..Len(entry.content) :
                         /\ entry.content[k].type = "tool_use"
                         /\ entry.content[k].id = id]

\* the ids of a set, in the order of the index
IdsInOrder(tr, ids) ==
    LET Wanted(use) == use.id \in ids
        uses == SelectSeq(tr.toolUses, Wanted)
    IN  [i \in 1..Len(uses) |-> uses[i].id]

\* the ids of the invocations of one tool
IdsNamed(tr, name) ==
    {id \in MapKeys(tr.toolUses) : InvocationOf(tr, id).name = name}

\* the positions of the TodoWrite invocations that have a result
AnsweredTodoWrites(tr) ==
    {InvocationAt(tr, id) : id \in IdsNamed(tr, "TodoWrite") \cap tr.toolResults}

\* the input of the last of them
SelectedInput(tr) ==
    LET at == CHOOSE i \in AnsweredTodoWrites(tr) :
                 \A j \in AnsweredTodoWrites(tr) : j <= i
        entry == tr.entries[at]
    IN  entry.content[CHOOSE k \in 1..Len(entry.content) :
                         entry.content[k].type = "tool_use"].input

\* the record that a step appended to the log is a result for `id`
ResultAppended(id) ==
    /\ Len(transcript'.entries) = Len(transcript.entries) + 1
    /\ LET entry == transcript'.entries[Len(transcript'.entries)]
       IN  /\ entry.type = "user"
           /\ entry.content = <<ToolResultBlock(id)>>

\* C14: the running tools shown are, one element per id of the index that
\* has no result and in index order, that invocation's name and its recorded
\* timestamp as start time (the time of the call when none was recorded);
\* ids with a result are not shown.
C14_RunningTools ==
    shown # NotShown =>
        LET ids == IdsInOrder(transcript, RunningIds(transcript))
        IN  /\ Len(shown.running) = Cardinality(RunningIds(transcript))
            /\ Len(shown.running) = Len(ids)
            /\ \A i \in 1..Len(ids) :
                  LET at == InvocationAt(transcript, ids[i])
                      stamp == transcript.entries[at].timestamp
                  IN  /\ shown.running[i].name
                           = InvocationOf(transcript, ids[i]).name
                      /\ shown.running[i].startTime
                           = IF IsSome(stamp) THEN DateGetTime(Val(stamp))
                             ELSE now

C14_Witness ==
    /\ shown # NotShown
    /\ Len(shown.running) = 2
    /\ Cardinality(transcript.toolResults) = 1
    /\ Len(transcript.toolUses) = 3
    /\ shown.running[1].startTime # now
    /\ shown.running[2].startTime = now

\* C15: when the result of a running id is appended and merged, the id is
\* no longer running and the completed count grows by exactly one; a further
\* result for an id that has one changes neither; an id that has a result
\* keeps it, so it is never running again while the log grows.
C15_ResultCompletesTool ==
    [][/\ \A id \in MapKeys(transcript.toolUses) :
             ResultAppended(id) =>
                IF id \in RunningIds(transcript)
                THEN /\ id \notin RunningIds(transcript')
                     /\ RunningIds(transcript') = RunningIds(transcript) \ {id}
                     /\ Len(getRunningTools(transcript', now))
                          = Len(getRunningTools(transcript, now)) - 1
                     /\ getCompletedToolCount(transcript')
                          = getCompletedToolCount(transcript) + 1
                ELSE /\ RunningIds(transcript') = RunningIds(transcript)
                     /\ getRunningTools(transcript', now)
                          = getRunningTools(transcript, now)
                     /\ getCompletedToolCount(transcript')
                          = getCompletedToolCount(transcript)
       /\ \A id \in transcript.toolResults :
             /\ id \in transcript'.toolResults
             /\ id \notin RunningIds(transcript')]_vars

C15_Witness ==
    /\ Len(transcript.entries) = 4
    /\ transcript.entries[1].type = "assistant"
    /\ transcript.entries[2].content = <<ToolResultBlock("t1")>>
    /\ transcript.entries[3].content = <<ToolResultBlock("t1")>>
    /\ transcript.entries[4].type = "assistant"
    /\ shown # NotShown
    /\ shown.completedTools = 1
    /\ Len(shown.running) = 1

C17_TodoCounts ==
    (shown # NotShown /\ shown.todo # Null) =>
        LET todos == SelectedInput(transcript).todos
            open == {i \in 1..Len(todos) :
                        todos[i].status \in {"in_progress", "pending"}}
        IN  /\ shown.todo.completed
                 = Cardinality({i \in 1..Len(todos) :
                                   todos[i].status = "completed"})
            /\ shown.todo.total = Len(todos)
            /\ shown.todo.current =
                 (IF open = {} THEN None
                  ELSE LET first == CHOOSE i \in open : \A j \in open : i <= j
                       IN  Some([content |-> todos[first].content,
                                 status |-> todos[first].status]))
            /\ 0 <= shown.todo.completed
            /\ shown.todo.completed <= shown.todo.total

C17_Witness ==
    /\ shown # NotShown
    /\ shown.todo # Null
    /\ shown.todo.completed = 1
    /\ shown.todo.total = 3
    /\ shown.todo.current = Some([content |-> "b", status |-> "in_progress"])

ProviderNames == {"claude", "codex", "gemini", "z.ai"}

\* the usage report handed to calculateRecommendation for a provider
UsageOf(name) ==
    CASE name = "claude" -> cliUsage.claude
      [] name = "codex" -> cliUsage.codex
      [] name = "gemini" -> cliUsage.gemini
      [] name = "z.ai" -> cliUsage.zai

\* eligible in the words of the contract: marked available, not in error
\* state, primary percentage non-null
EligibleAsStated(name) ==
    LET info == UsageOf(name)
    IN  /\ info # Null
        /\ info.available
        /\ ~info.error
        /\ IsSome(info.fiveHourPercent)

\* eligible where Claude has its own rule: left out when the z.ai provider
\* is in use, and its availability flag is not read
EligibleWithClaudeRule(name) ==
    IF name = "claude"
    THEN /\ ~cliUsage.zaiProvider
         /\ ~cliUsage.claude.error
         /\ IsSome(cliUsage.claude.fiveHourPercent)
    ELSE EligibleAsStated(name)

CandidateNames ==
    LET candidates == Candidates(cliUsage.claude, cliUsage.codex,
                                 cliUsage.gemini, cliUsage.zai,
                                 cliUsage.zaiProvider)
    IN  {candidates[i].name : i \in 1..Len(candidates)}

PercentOf(name) == Val(UsageOf(name).fiveHourPercent)

\* C19 as stated: each of the four providers is a candidate iff it is marked
\* available, is not in error state and has a non-null primary percentage;
\* only a candidate is recommended, and nothing is recommended iff there is
\* no candidate.
C19_CandidateIffEligible ==
    recommendation # NotComputed =>
        /\ CandidateNames = {name \in ProviderNames : EligibleAsStated(name)}
        /\ \A name \in ProviderNames :
              recommendation.name = Some(name) => EligibleAsStated(name)
        /\ (recommendation.name = None)
              <=> (\A name \in ProviderNames : ~EligibleAsStated(name))

\* C19 amended: Codex, Gemini and z.ai are candidates iff their report is
\* present, marked available, not in error state and has a non-null primary
\* percentage; Claude is a candidate iff the z.ai provider is not in use,
\* its report is not in error state and has a non-null primary percentage.
C19_CandidateIffEligibleClaudeApart ==
    recommendation # NotComputed =>
        /\ CandidateNames
             = {name \in ProviderNames : EligibleWithClaudeRule(name)}
        /\ \A name \in ProviderNames :
              recommendation.name = Some(name) => EligibleWithClaudeRule(name)
        /\ (recommendation.name = None)
              <=> (\A name \in ProviderNames : ~EligibleWithClaudeRule(name))

\* Claude's report is usable but the z.ai provider is in use; Codex is not
\* available, Gemini is in error: z.ai is the only candidate
C19_Witness ==
    /\ recommendation # NotComputed
    /\ cliUsage.zaiProvider
    /\ cliUsage.claude = CLIUsageInfo(TRUE, FALSE, Some(0))
    /\ cliUsage.codex = CLIUsageInfo(FALSE, FALSE, Some(0))
    /\ cliUsage.gemini = CLIUsageInfo(TRUE, TRUE, Some(0))
    /\ cliUsage.zai = CLIUsageInfo(TRUE, FALSE, Some(30))
    /\ recommendation.name = Some("z.ai")

\* C20 as stated: when a provider is eligible (available, not in error,
\* primary percentage non-null), a provider is selected whose primary
\* percentage is at most that of every eligible provider, and the reason
\* text carries exactly the digits of the selected percentage.
C20_LowestEligibleSelected ==
    (/\ recommendation # NotComputed
     /\ \E name \in ProviderNames : EligibleAsStated(name))
    => /\ IsSome(recommendation.name)
       /\ EligibleAsStated(Val(recommendation.name))
       /\ \A other \in ProviderNames :
             EligibleAsStated(other)
             => PercentOf(Val(recommendation.name)) <= PercentOf(other)
       /\ recommendation.reason
            = <<"lowestUsage", " ", "(">>
              \o NumberToString(PercentOf(Val(recommendation.name)))
              \o <<"%", " ", "used", ")">>

\* C20 amended: the same, where eligible is what makes a candidate (Claude
\* by its own rule).
C20_LowestCandidateSelected ==
    (/\ recommendation # NotComputed
     /\ \E name \in ProviderNames : EligibleWithClaudeRule(name))
    => /\ IsSome(recommendation.name)
       /\ EligibleWithClaudeRule(Val(recommendation.name))
       /\ \A other \in ProviderNames :
             EligibleWithClaudeRule(other)
             => PercentOf(Val(recommendation.name)) <= PercentOf(other)
       /\ recommendation.reason
            = <<"lowestUsage", " ", "(">>
              \o NumberToString(PercentOf(Val(recommendation.name)))
              \o <<"%", " ", "used", ")">>

\* four candidates, the third has the lowest percentage
C20_Witness ==
    /\ recommendation # NotComputed
    /\ ~cliUsage.zaiProvider
    /\ cliUsage.claude = CLIUsageInfo(TRUE, FALSE, Some(30))
    /\ cliUsage.codex = CLIUsageInfo(TRUE, FALSE, Some(30))
    /\ cliUsage.gemini = CLIUsageInfo(TRUE, FALSE, Some(0))
    /\ cliUsage.zai = CLIUsageInfo(TRUE, FALSE, Some(30))
    /\ recommendation.name = Some("gemini")
    /\ recommendation.reason
         = <<"lowestUsage", " ", "(", "0", "%", " ", "used", ")">>

\* ================================================ z.ai: one quota limit
\* the numbers a limit object of the quota response can carry
QuotaValues == {-6, -1, 0, 1, 2, 7}
PercentageValues == {-5, 0, 42, 150}

Optional(S) == {None} \cup {Some(x) : x \in S}

QuotaLimits ==
    {ZaiLimit("TOKENS_LIMIT", pct, usage, cur, rem, None) :
        pct \in Optional(PercentageValues), usage \in Optional(QuotaValues),
        cur \in Optional(QuotaValues), rem \in Optional(QuotaValues)}

\* parseUsagePercent(limit), and calculateUsagePercent(currentValue,
\* remaining) when the limit has both numbers
ParseUsagePercent ==
    /\ percent = NotComputed
    /\ percent' =
         [parsed |-> parseUsagePercent(quota),
          derived |->
            IF IsSome(quota.currentValue) /\ IsSome(quota.remaining)
            THEN Some(calculateUsagePercent(Val(quota.currentValue),
                                            Val(quota.remaining)))
            ELSE None]
    /\ UNCHANGED <<fetchVars, parseVars, queryVars, quota, check>>

PercentInit ==
    /\ provider = "zai"
    /\ now = 0
    /\ cacheMap = [k \in KeysOf(provider) |-> NoEntry]
    /\ pendingRequests = [k \in KeysOf(provider) |-> 0]
    /\ call = [c \in Calls |-> IdleCall]
    /\ request = [c \in Calls |-> NoRequest]
    /\ netCalls = [k \in KeysOf(provider) |-> 0]
    /\ firstAt = [k \in KeysOf(provider) |-> NoTime]
    /\ files = [p \in Paths |-> IF p = OtherPath THEN OtherContent ELSE <<>>]
    /\ cachedTranscript = Null
    /\ parse = [c \in Parsers |-> IdleParse]
    /\ transcript = EmptyData
    /\ shown = NotShown
    /\ cliUsage = NoUsage
    /\ recommendation = NotComputed
    /\ again = NotComputed
    /\ quota \in QuotaLimits
    /\ percent = NotComputed
    /\ check = NotComputed

NextPercent == ParseUsagePercent

SpecPercent == PercentInit /\ [][NextPercent]_vars

\* --------------------------------------------------- the percentages
\* q is num/den rounded to the nearest integer, halves upwards (den > 0)
IsRounded(q, num, den) ==
    /\ (2 * q - 1) * den <= 2 * num
    /\ 2 * num < (2 * q + 1) * den

\* the percentage that the ratio num/den stands for: rounded, then clamped
PercentFor(num, den) ==
    LET q == CHOOSE x \in -701..15001 : IsRounded(x, num, den)
    IN  IF q < 0 THEN 0 ELSE IF q > 100 THEN 100 ELSE q

\* C25: for every currentValue and remaining, the derived percentage is
\* null when currentValue + remaining <= 0, and otherwise
\* round(currentValue / (currentValue + remaining) * 100) clamped into
\* 0..100.
C25_DerivedPercent ==
    (percent # NotComputed /\ IsSome(percent.derived)) =>
        LET cur == Val(quota.currentValue)
            rem == Val(quota.remaining)
            result == Val(percent.derived)
        IN  IF cur + rem <= 0 THEN result = None
            ELSE /\ result = Some(PercentFor(100 * cur, cur + rem))
                 /\ Val(result) \in 0..100

\* 1 of 8 is 12.5 percent and rounds to 13
C25_Witness ==
    /\ percent # NotComputed
    /\ quota.currentValue = Some(1)
    /\ quota.remaining = Some(7)
    /\ percent.derived = Some(Some(13))

\* C26: a percentage field wins over every derived value; without it
\* currentValue with remaining is used; without remaining, currentValue
\* with usage, which gives null when usage <= 0; with none of these the
\* result is null.
C26_PercentPriority ==
    percent # NotComputed =>
        IF IsSome(quota.percentage)
        THEN percent.parsed = Some(PercentFor(Val(quota.percentage), 1))
        ELSE IF IsSome(quota.currentValue) /\ IsSome(quota.remaining)
        THEN percent.parsed = Val(percent.derived)
        ELSE IF IsSome(quota.currentValue) /\ IsSome(quota.usage)
        THEN IF Val(quota.usage) <= 0 THEN percent.parsed = None
             ELSE percent.parsed
                    = Some(PercentFor(100 * Val(quota.currentValue),
                                      Val(quota.usage)))
        ELSE percent.parsed = None

\* the limit carries percentage 150 and also 1 used with 7 remaining
C26_Witness ==
    /\ percent # NotComputed
    /\ quota.percentage = Some(150)
    /\ quota.currentValue = Some(1)
    /\ quota.remaining = Some(7)
    /\ quota.usage = Some(2)
    /\ percent.parsed = Some(100)
    /\ percent.derived = Some(Some(13))

WithoutCredential(c) ==
    \/ \E baseUrl \in {BaseUrl, NoBaseUrl}, tok \in Tokens \cup {NoToken},
          ttl \in TTLs :
          /\ baseUrl = NoBaseUrl \/ tok = NoToken
          /\ FetchZaiUsage(c, baseUrl, tok, ttl)
    \/ call[c].tok = NoToken /\ CodexAfterAuth(c)

\* C23: a call that finds no credential (no token, or for z.ai no base URL)
\* returns null in that step; no network call is issued and the cache map
\* and the registry of pending requests are untouched.
C23_NoCredentialNoCall ==
    [][\A c \in Calls :
          WithoutCredential(c)
          => /\ call'[c].pc = "done"
             /\ call'[c].res = Null
             /\ UNCHANGED <<cacheMap, pendingRequests, request, netCalls>>
      ]_vars

\* a call without credential has returned while the fetch of another call
\* is registered and in flight
C23_Witness ==
    /\ call[1].pc = "await"
    /\ InFlight(1)
    /\ call[2].pc = "done"
    /\ call[2].via = "nocred"
    /\ call[2].res = Null
    /\ pendingRequests[KeyOfCall(1)] = 1
    /\ netCalls[KeyOfCall(1)] = 1

\* the utilization percentages of a snapshot
PercentagesOf(data) ==
    IF provider = "zai"
    THEN {p \in {data.tokensPercent, data.mcpPercent} : IsSome(p)}
    ELSE {Some(Val(w).usedPercent) :
            w \in {w \in {data.primary, data.secondary} : IsSome(w)}}

\* C27 as stated: every snapshot that is cached or returned has each of its
\* utilization percentages null or within 0..100.
C27_PercentInRange ==
    /\ \A k \in KeysOf(provider) :
          cacheMap[k] # NoEntry
          => \A p \in PercentagesOf(cacheMap[k].data) : Val(p) \in 0..100
    /\ \A c \in Calls :
          (call[c].pc = "done" /\ call[c].res # Null)
          => \A p \in PercentagesOf(call[c].res) : Val(p) \in 0..100

\* C29 as stated: the call that starts a fetch registers it in the step in
\* which it was called, before any suspension, having found the registry
\* empty for its key in that same step.
C29_RegisteredBeforeSuspension ==
    [][\A c \in Calls :
          (call[c].pc # "await" /\ call'[c].pc = "await")
          => /\ call[c].pc = "idle"
             /\ pendingRequests[CacheKey(provider, BaseUrl, call'[c].tok)] = 0
             /\ pendingRequests'[CacheKey(provider, BaseUrl, call'[c].tok)] = c
      ]_vars

\* C29 amended: the call that starts a fetch finds the registry empty for
\* its key and registers the fetch in one step; for z.ai this is the step
\* in which it was called, for Codex the step in which it resumes with the
\* credentials; so no two calls wait as originators for the same key.
C29_LookupAndRegistrationAtomic ==
    [][/\ \A c \in Calls :
            (call[c].pc # "await" /\ call'[c].pc = "await")
            => LET key == CacheKey(provider, BaseUrl, call'[c].tok)
               IN  /\ call[c].pc = IF provider = "zai" THEN "idle" ELSE "auth"
                   /\ pendingRequests[key] = 0
                   /\ pendingRequests'[key] = c
                   /\ request'[c].stage = "fetch"
       /\ \A c, d \in Calls :
            (c # d /\ call'[c].pc = "await" /\ call'[d].pc = "await")
            => call'[c].tok # call'[d].tok
      ]_vars

\* Codex: both calls have resumed with the same credentials; the first
\* started the fetch, the second was handed the pending task
C29_Witness ==
    /\ provider = "codex"
    /\ call[1].pc = "await"
    /\ call[2].pc = "joined"
    /\ call[2].awaits = 1
    /\ call[1].tok = call[2].tok
    /\ pendingRequests[KeyOfCall(1)] = 1
    /\ netCalls[KeyOfCall(1)] = 1

AllKeys == KeysOf("zai") \cup KeysOf("codex")

Registered(k) == k \in DOMAIN pendingRequests /\ pendingRequests[k] # 0

\* C30: every registered pending entry is eventually unregistered, it is
\* unregistered only when the outcome of its fetch is known, and every call
\* that was made eventually returns.
C30_EventuallyUnregistered ==
    /\ \A k \in AllKeys : Registered(k) ~> ~Registered(k)
    /\ \A c \in Calls : (call[c].pc # "idle") ~> (call[c].pc = "done")
    /\ [][\A k \in KeysOf(provider) :
             (pendingRequests[k] # 0 /\ pendingRequests'[k] = 0)
             => /\ request[pendingRequests[k]].stage = "settled"
                /\ call'[pendingRequests[k]].pc = "done"
                /\ call'[pendingRequests[k]].res
                     = request[pendingRequests[k]].value]_vars

\* a fetch that failed has been unregistered and its caller has null
C30_Witness ==
    /\ call[1].pc = "done"
    /\ call[1].via = "fetched"
    /\ call[1].res = Null
    /\ request[1].stage = "settled"
    /\ pendingRequests[KeyOfCall(1)] = 0
    /\ netCalls[KeyOfCall(1)] = 1

\* ===================================================== check-usage: main
OptionalClis == {"codex", "gemini", "z.ai"}

\* what a provider's fetch resolves to: null, or limits of which the model
\* keeps the primary percentage (five_hour.utilization, primary.usedPercent,
\* usedPercent, tokensPercent), itself possibly null
LimitsResults == {Null} \cup {[primary |-> p] : p \in Optional(Percents)}

createNotInstalledResult == CLIUsageInfo(FALSE, FALSE, None)

createErrorResult == CLIUsageInfo(TRUE, TRUE, None)

parseClaudeUsage(limits) ==
    IF limits = Null THEN createErrorResult
    ELSE CLIUsageInfo(TRUE, FALSE, limits.primary)

\* mutant of parseCliUsage: a failed fetch is reported as 0 percent used
parseCliUsage_FailedAsUnused(limits, installed) ==
    IF ~installed THEN createNotInstalledResult
    ELSE IF limits = Null THEN CLIUsageInfo(TRUE, FALSE, Some(0))
    ELSE CLIUsageInfo(TRUE, FALSE, limits.primary)

\* parseCodexUsage, parseGeminiUsage, parseZaiUsage
parseCliUsage(limits, installed) ==
    IF ~installed THEN createNotInstalledResult
    ELSE IF limits = Null THEN createErrorResult
    ELSE CLIUsageInfo(TRUE, FALSE, limits.primary)

\* main before its first await: zaiInstalled is known (line 831), Codex and
\* Gemini are not yet
MainStartState(zaiProvider, zaiInstalled) ==
    [pc |-> "start", zaiProvider |-> zaiProvider,
     installed |-> [cli \in OptionalClis |->
                      IF cli = "z.ai"
                      THEN (IF zaiInstalled THEN "yes" ELSE "no")
                      ELSE "unknown"],
     fetch |-> [name \in ProviderNames |-> "idle"],
     limits |-> [name \in ProviderNames |-> Null],
     usage |-> [name \in ProviderNames |-> createNotInstalledResult]]

\* lines 838-842: the Claude fetch and the two installation checks are
\* started and awaited together
MainStart ==
    /\ check.pc = "start"
    /\ check' = [check EXCEPT !.pc = "await1", !.fetch["claude"] = "running"]
    /\ UNCHANGED <<fetchVars, parseVars, queryVars, quota, percent>>

\* isCodexInstalled() / isGeminiInstalled() resolves
InstallChecked(cli, installed) ==
    /\ check.pc = "await1"
    /\ check.installed[cli] = "unknown"
    /\ check' = [check EXCEPT !.installed[cli] =
                                 IF installed THEN "yes" ELSE "no"]
    /\ UNCHANGED <<fetchVars, parseVars, queryVars, quota, percent>>

\* the fetch of a provider resolves, with limits or with null
ProviderFetched(name, limits) ==
    /\ check.fetch[name] = "running"
    /\ check' = [check EXCEPT !.fetch[name] = "done", !.limits[name] = limits]
    /\ UNCHANGED <<fetchVars, parseVars, queryVars, quota, percent>>

\* lines 845-849: main resumes from the first Promise.all and starts the
\* fetches of the installed CLIs
MainSecondStage ==
    /\ check.pc = "await1"
    /\ check.fetch["claude"] = "done"
    /\ \A cli \in OptionalClis : check.installed[cli] # "unknown"
    /\ check' = [check EXCEPT
                   !.pc = "await2",
                   !.fetch = [name \in ProviderNames |->
                                IF name \in OptionalClis
                                THEN (IF check.installed[name] = "yes"
                                      THEN "running" ELSE "skipped")
                                ELSE @[name]]]
    /\ UNCHANGED <<fetchVars, parseVars, queryVars, quota, percent>>

\* lines 852-864: main resumes from the second Promise.all, normalizes the
\* four results and computes the advice
MainAdvice ==
    /\ check.pc = "await2"
    /\ \A name \in ProviderNames : check.fetch[name] # "running"
    /\ LET usage ==
             [name \in ProviderNames |->
                IF name = "claude" THEN parseClaudeUsage(check.limits[name])
                ELSE parseCliUsage(check.limits[name],
                                   check.installed[name] = "yes")]
           Passed(cli) ==
             IF check.installed[cli] = "yes" THEN usage[cli] ELSE Null
       IN  /\ check' = [check EXCEPT !.pc = "done", !.usage = usage]
           /\ cliUsage' = [claude |-> usage["claude"],
                           codex |-> Passed("codex"),
                           gemini |-> Passed("gemini"),
                           zai |-> Passed("z.ai"),
                           zaiProvider |-> check.zaiProvider]
           /\ recommendation' =
                calculateRecommendation(usage["claude"], Passed("codex"),
                                        Passed("gemini"), Passed("z.ai"),
                                        check.zaiProvider)
    /\ UNCHANGED <<fetchVars, parseVars, transcript, shown, again, quota,
                   percent>>

\* check-usage is started; isZaiInstalled() implies the z.ai provider
MainInit ==
    /\ provider = "zai"
    /\ now = 0
    /\ cacheMap = [k \in KeysOf(provider) |-> NoEntry]
    /\ pendingRequests = [k \in KeysOf(provider) |-> 0]
    /\ call = [c \in Calls |-> IdleCall]
    /\ request = [c \in Calls |-> NoRequest]
    /\ netCalls = [k \in KeysOf(provider) |-> 0]
    /\ firstAt = [k \in KeysOf(provider) |-> NoTime]
    /\ files = [p \in Paths |-> IF p = OtherPath THEN OtherContent ELSE <<>>]
    /\ cachedTranscript = Null
    /\ parse = [c \in Parsers |-> IdleParse]
    /\ transcript = EmptyData
    /\ shown = NotShown
    /\ cliUsage = NoUsage
    /\ recommendation = NotComputed
    /\ again = NotComputed
    /\ quota = NotComputed
    /\ percent = NotComputed
    /\ check \in {MainStartState(env[1], env[2]) :
                    env \in {e \in BOOLEAN \X BOOLEAN : e[2] => e[1]}}

NextMain ==
    \/ MainStart
    \/ \E cli \in OptionalClis, installed \in BOOLEAN :
          InstallChecked(cli, installed)
    \/ \E name \in ProviderNames, limits \in LimitsResults :
          ProviderFetched(name, limits)
    \/ MainSecondStage
    \/ MainAdvice

SpecMain == MainInit /\ [][NextMain]_vars

\* ------------------------------------------------------- main: properties
\* the provider is not installed, or its fetch returned null
Unusable(name) ==
    \/ name \in OptionalClis /\ check.installed[name] = "no"
    \/ check.limits[name] = Null

\* C22: a CLI that is not installed is summarized as available = false,
\* error = false, an installed provider whose fetch returned null as
\* available = true, error = true, both without percentages; such a provider
\* is never the one recommended, and the advice is the one that the other
\* providers give: none only if none of them is a candidate, and otherwise
\* a candidate among them with the lowest percentage.
C22_FailedProviderNeverAdvised ==
    check.pc = "done" =>
        LET others == {name \in ProviderNames :
                          ~Unusable(name) /\ EligibleWithClaudeRule(name)}
        IN  /\ \A cli \in OptionalClis :
                  check.installed[cli] = "no"
                  => check.usage[cli] = CLIUsageInfo(FALSE, FALSE, None)
            /\ \A name \in ProviderNames :
                  (check.limits[name] = Null
                   /\ (name \in OptionalClis => check.installed[name] = "yes"))
                  => check.usage[name] = CLIUsageInfo(TRUE, TRUE, None)
            /\ \A name \in ProviderNames :
                  Unusable(name) => recommendation.name # Some(name)
            /\ IF others = {} THEN recommendation.name = None
               ELSE /\ IsSome(recommendation.name)
                    /\ Val(recommendation.name) \in others
                    /\ \A other \in others :
                          PercentOf(Val(recommendation.name))
                            <= PercentOf(other)

\* Codex is not installed, the Gemini fetch failed, Claude is recommended
C22_Witness ==
    /\ check.pc = "done"
    /\ check.installed["codex"] = "no"
    /\ check.installed["gemini"] = "yes"
    /\ check.limits["gemini"] = Null
    /\ check.usage["codex"] = CLIUsageInfo(FALSE, FALSE, None)
    /\ check.usage["gemini"] = CLIUsageInfo(TRUE, TRUE, None)
    /\ check.limits["claude"] = [primary |-> Some(30)]
    /\ recommendation.name = Some("claude")

\* C24 as stated: a provider's fetch is never started after the fetch of
\* another provider has completed.
C24_AllFetchesIssuedTogether ==
    [][\A name \in ProviderNames :
          (check.fetch[name] # "running" /\ check'.fetch[name] = "running")
          => \A other \in ProviderNames : check.fetch[other] # "done"]_vars

\* ================================================ fetch: more properties
\* C31: a call made with one credential is never handed the pending task of
\* a request made with another, returns only the outcome of a request made
\* with its own credential, and a cache entry is written under a key only
\* by a request made with the credential of that key.
C31_CredentialIsolation ==
    [][/\ \A c \in Calls :
            (call[c].pc # "joined" /\ call'[c].pc = "joined")
            => /\ request[call'[c].awaits].stage # "none"
               /\ request[call'[c].awaits].tok = call'[c].tok
       /\ \A c \in Calls :
            (call[c].pc # "done" /\ call'[c].pc = "done"
               /\ call'[c].via \in {"hit", "joined", "fetched"})
            => \E r \in Calls :
                  /\ request[r].stage # "none"
                  /\ request[r].tok = call'[c].tok
                  /\ request[r].value = call'[c].res
                  /\ call'[c].via # "hit" => r = call[c].awaits
       /\ \A tok \in Tokens :
            LET k == CacheKey(provider, BaseUrl, tok)
            IN  cacheMap'[k] # cacheMap[k]
                => \E r \in Calls :
                      /\ request'[r].tok = tok
                      /\ request'[r].value = cacheMap'[k].data
      ]_vars

\* a snapshot fetched with one credential is cached and still fresh, and the
\* call made with the other credential has started a fetch of its own
C31_Witness ==
    /\ call[1].pc = "done"
    /\ call[1].via = "fetched"
    /\ call[1].res # Null
    /\ cacheMap[KeyOfCall(1)] # NoEntry
    /\ call[2].pc = "await"
    /\ call[2].tok # call[1].tok
    /\ request[2].stage = "fetch"
    /\ request[2].tok = call[2].tok
    /\ pendingRequests[KeyOfCall(2)] = 2
    /\ now = 0

\* a 2xx response whose body is not JSON or lacks the minimal shape
LacksShape(resp) ==
    /\ resp.net = "ok"
    /\ resp.ok
    /\ \/ resp.json = "throws"
       \/ resp.body.shape # "object"
       \/ provider = "zai" /\ resp.body.limitsKind # "array"
       \/ provider = "codex" /\ ~resp.body.hasPlanType
       \/ provider = "codex" /\ ~resp.body.hasRateLimit
       \/ provider = "codex" /\ resp.body.rateLimitKind # "object"

\* C32: a 2xx response whose body is not JSON or lacks the minimal shape
\* settles the fetch with null in the step that reads the body, that step
\* writes no cache entry, and the caller that started the fetch returns null
\* and writes none either.
C32_MalformedBodyIsFailure ==
    [][/\ \A r \in Calls :
            (/\ request[r].stage = "json"
             /\ request'[r] # request[r]
             /\ LacksShape(request[r].resp))
            => /\ request'[r].stage = "settled"
               /\ request'[r].value = Null
               /\ cacheMap' = cacheMap
       /\ \A c \in Calls :
            (/\ call[c].pc = "await"
             /\ call'[c].pc = "done"
             /\ request[c].value = Null)
            => /\ call'[c].res = Null
               /\ cacheMap' = cacheMap
      ]_vars

\* Codex answered 200 with a JSON object that has rate_limit but no
\* plan_type; the fetch is about to read it, and nothing is cached
C32_Witness ==
    /\ provider = "codex"
    /\ call[1].pc = "await"
    /\ request[1].stage = "json"
    /\ LacksShape(request[1].resp)
    /\ request[1].resp.json = "ok"
    /\ request[1].resp.body.shape = "object"
    /\ request[1].resp.body.hasRateLimit
    /\ ~request[1].resp.body.hasPlanType
    /\ cacheMap[KeyOfCall(1)] = NoEntry

\* ==================================================== z.ai: cache reset
\* clearZaiCache(): zaiCacheMap.clear(); pendingRequests.clear()
ClearZaiCache ==
    /\ provider = "zai"
    /\ cacheMap' = [k \in DOMAIN cacheMap |-> NoEntry]
    /\ pendingRequests' = [k \in DOMAIN pendingRequests |-> 0]
    /\ UNCHANGED <<mainVars, queryVars, parseVars, provider, now, call,
                   request, netCalls, firstAt>>

\* z.ai callers of one account, and the reset between any two steps
NextFetchReset ==
    \/ \E c \in Calls : FetchZaiUsage(c, BaseUrl, "tokA", 1)
    \/ \E r \in Calls, resp \in LiveResponses(provider) : FetchResponded(r, resp)
    \/ \E r \in Calls : ZaiBodyRead(r)
    \/ \E c \in Calls : OriginatorResumes(c)
    \/ \E c \in Calls : JoinedResumes(c)
    \/ ClearZaiCache
    \/ Tick

\* the z.ai client as loaded (ParseInit: provider z.ai, empty maps, no call)
SpecFetchReset == ParseInit /\ [][NextFetchReset]_vars

\* C36 as stated: the caller that completes a fetch never removes the
\* pending entry of a different fetch of the same key that is still in
\* flight.
C36_UnregistersOnlyOwnTask ==
    [][\A c \in Calls :
          (call[c].pc = "await" /\ call'[c].pc = "done")
          => \A k \in KeysOf(provider) :
                (/\ pendingRequests[k] # 0
                 /\ pendingRequests[k] # c
                 /\ InFlight(pendingRequests[k]))
                => pendingRequests'[k] = pendingRequests[k]
      ]_vars

\* the requests of key k that have settled with a snapshot
Succeeded(k) ==
    {r \in Calls : /\ request[r].stage = "settled"
                   /\ request[r].value \notin {Null, Threw, NoResult}
                   /\ KeyOfRequest(r) = k}

\* C37: when the pending entry of a fetch that succeeded is removed, the
\* cache holds the snapshot of that fetch; and whenever a fetch of key k has
\* succeeded and no task is registered for k, the cache holds for k a
\* snapshot of a fetch of k that succeeded.
C37_CachedBeforeUnregistered ==
    /\ [](\A k \in KeysOf(provider) :
            (Succeeded(k) # {} /\ pendingRequests[k] = 0)
            => /\ cacheMap[k] # NoEntry
               /\ \E r \in Succeeded(k) : cacheMap[k].data = request[r].value)
    /\ [][\A k \in KeysOf(provider) :
            (/\ pendingRequests[k] # 0
             /\ pendingRequests'[k] = 0
             /\ request[pendingRequests[k]].value \notin {Null, Threw, NoResult})
            => /\ cacheMap'[k] # NoEntry
               /\ cacheMap'[k].data = request[pendingRequests[k]].value
      ]_vars

\* Codex: the fetch has cached its snapshot and settled, its caller has not
\* resumed yet, so the task is still registered
C37_Witness ==
    /\ provider = "codex"
    /\ call[1].pc = "await"
    /\ request[1].stage = "settled"
    /\ request[1].value \notin {Null, Threw, NoResult}
    /\ pendingRequests[KeyOfCall(1)] = 1
    /\ cacheMap[KeyOfCall(1)] # NoEntry
    /\ cacheMap[KeyOfCall(1)].data = request[1].value

\* ============================================ parser: a log being written
\* the writer emits record lines; the byte that follows the content
NextBytes(content) ==
    IF Len(content) % 3 = 0 THEN RecordBytes
    ELSE IF Len(content) % 3 = 1 THEN {"}"}
    ELSE {NL}

\* one more byte of the line being written reaches the file: a chunk of an
\* append is any run of these steps between two steps of the parser
AppendByte(p, byte) ==
    /\ Len(files[p]) < 3 * MaxLines
    /\ byte \in NextBytes(files[p])
    /\ files' = [files EXCEPT ![p] = Append(@, byte)]
    /\ UNCHANGED <<mainVars, queryVars, fetchVars, cachedTranscript, parse>>

\* one parseTranscript call at a time for a log that grows by chunks
NextParseChunks ==
    \/ ParseTranscript(1, LogPath)
    \/ ParserStep({1})
    \/ \E byte \in RecordBytes \cup {"}", NL} : AppendByte(LogPath, byte)

SpecParseChunks == ParseInit /\ [][NextParseChunks]_vars

\* C33 as stated: after every parse of an append-only file that grows by
\* arbitrary chunks, the tracked state is the one a single full parse of the
\* content the call observed gives.
C33_IncrementalEqualsFull ==
    [][\A c \in Parsers :
          (Completes(c) /\ parse'[c].res = "data")
          => /\ cachedTranscript' # Null
             /\ cachedTranscript'.size = ObservedSize(c)
             /\ cachedTranscript'.data =
                   FreshData(SubSeq(files'[LogPath], 1, ObservedSize(c)))
      ]_vars

\* C34 as stated: a call that returns null leaves the tracked state (path,
\* offset, entries, tool uses, tool results) exactly as it was.
C34_NullLeavesStateUntouched ==
    [][\A c \in Parsers :
          (parse[c].pc # "done" /\ parse'[c].pc = "done"
             /\ parse'[c].res = "null")
          => cachedTranscript' = cachedTranscript
      ]_vars

\* concurrent parseTranscript calls for the log and for the other log
NextParsePaths ==
    \/ \E c \in Parsers, p \in Paths : ParseTranscript(c, p)
    \/ ParserStep(Parsers)
    \/ \E line \in Lines : AppendLine(LogPath, line)

SpecParsePaths == ParseInit /\ [][NextParsePaths]_vars

\* C35 as stated: every record of the tracked state is a record of the file
\* at the tracked path and the tracked offset is a size that file has had
\* (the files only grow).
C35_PathIsolation ==
    cachedTranscript # Null =>
        LET tracked == cachedTranscript.data.entries
            inFile == FreshData(files[cachedTranscript.path]).entries
        IN  /\ cachedTranscript.size <= Len(files[cachedTranscript.path])
            /\ \A i \in 1..Len(tracked) :
                  \E j \in 1..Len(inFile) : inFile[j] = tracked[i]

\* C38 as stated: every id of the tool-result set is a key of the tool-use
\* index, so the completed count is at most the number of tool uses seen.
C38_ResultsAmongUses ==
    cachedTranscript # Null =>
        /\ cachedTranscript.data.toolResults
             \subseteq MapKeys(cachedTranscript.data.toolUses)
        /\ getCompletedToolCount(cachedTranscript.data)
             <= Len(cachedTranscript.data.toolUses)

\* ============================================== transcript: read batches
\* the session appended two records since the last parse; the parse merges
\* them (lines 111-113) and the widgets are rendered from the result
IngestBatch(first, second) ==
    /\ Len(transcript.entries) + 2 <= MaxRecords
    /\ first \in NextRecords(transcript)
    /\ second \in NextRecords(processEntries(<<first>>, transcript).data)
    /\ transcript' = processEntries(<<first, second>>, transcript).data
    /\ shown' = [running |-> getRunningTools(transcript', now),
                 completedTools |-> getCompletedToolCount(transcript'),
                 todo |-> extractTodoProgress(transcript'),
                 agents |-> extractAgentStatus(transcript')]
    /\ UNCHANGED <<fetchVars, parseVars, mainVars, cliUsage, recommendation,
                   again>>

NextBatch ==
    \E first \in NextRecords(transcript) :
       \E second \in NextRecords(processEntries(<<first>>, transcript).data) :
          IngestBatch(first, second)

SpecBatch == ViewInit /\ [][NextBatch]_vars

\* the record is a TodoWrite invocation and the other record is its result
AnswersTodoWrite(use, answer) ==
    /\ use.type = "assistant"
    /\ use.content[1].type = "tool_use"
    /\ use.content[1].name = "TodoWrite"
    /\ answer.type = "user"
    /\ answer.content[1].type = "tool_result"
    /\ answer.content[1].tool_use_id = use.content[1].id

\* C39: a parse appends the records of its batch to the entries of the
\* earlier batches in the order in which they were appended to the file, and
\* when the batch is a TodoWrite invocation followed by its result, the todo
\* progress computed right after the parse is the one of that invocation's
\* input (null when that input has no todos array).
C39_AppendOrder ==
    [][\A first \in NextRecords(transcript) :
          \A second \in NextRecords(ProcessEntry(first, transcript)) :
             IngestBatch(first, second)
             => /\ transcript'.entries = transcript.entries \o <<first, second>>
                /\ AnswersTodoWrite(first, second)
                   => shown'.todo =
                        (IF first.content[1].input.todosKind = "array"
                         THEN TodoSummary(first.content[1].input.todos)
                         ELSE Null)
      ]_vars

\* the second batch was a TodoWrite invocation with three items and its
\* result, and the progress shown is that of these three items
C39_Witness ==
    /\ Len(transcript.entries) = 4
    /\ AnswersTodoWrite(transcript.entries[3], transcript.entries[4])
    /\ ~AnswersTodoWrite(transcript.entries[1], transcript.entries[2])
    /\ transcript.entries[1].type = "assistant"
    /\ transcript.entries[1].content[1].name = "TodoWrite"
    /\ transcript.entries[1].content[1].input.todosKind = "array"
    /\ Len(transcript.entries[1].content[1].input.todos) = 2
    /\ Len(transcript.entries[3].content[1].input.todos) = 3
    /\ shown # NotShown
    /\ shown.todo # Null
    /\ shown.todo.total = 3
    /\ shown.todo.completed = 1

\* ============================================ transcript: indexing rules
\* content blocks of any kind: tool_use blocks with and without id and
\* name, with an id used before and with another name; tool_result blocks
\* with and without the id they answer; a text block
AnyBlocks ==
    {ToolUseBlock(id, "Bash") : id \in {"t1", "t2", ""}}
    \cup {ToolUseBlock("t1", "Read"), ToolUseBlock("t1", "")}
    \cup {ToolResultBlock(id) : id \in {"t1", ""}}
    \cup {[ToolResultBlock("") EXCEPT !.type = "text"]}

\* a record of either type with one such block, stamped with its position
AnyRecords(tr) ==
    {Entry(type, Some(Len(tr.entries) + 1), <<block>>) :
        type \in {"assistant", "user"}, block \in AnyBlocks}

\* processEntries on one record of any kind
IndexRecord(entry) ==
    /\ Len(transcript.entries) < MaxIndexed
    /\ entry \in AnyRecords(transcript)
    /\ transcript' = processEntries(<<entry>>, transcript).data
    /\ UNCHANGED <<fetchVars, parseVars, mainVars, shown, cliUsage,
                   recommendation, again>>

NextIndex == \E entry \in AnyRecords(transcript) : IndexRecord(entry)

SpecIndex == ViewInit /\ [][NextIndex]_vars

\* C40: the tool-use index gains or overwrites an entry exactly for a
\* tool_use block with id and name in an assistant record, as {name,
\* timestamp of the record}, one entry per id, all other entries kept; the
\* tool-result set gains exactly the id of a tool_result block of a user
\* record, and is unchanged when that id is already in it.
C40_IndexingRules ==
    [][\A entry \in AnyRecords(transcript) :
          IndexRecord(entry)
          => LET block == entry.content[1]
                 isUse == /\ entry.type = "assistant"
                          /\ block.type = "tool_use"
                          /\ block.id # ""
                          /\ block.name # ""
                 isResult == /\ entry.type = "user"
                             /\ block.type = "tool_result"
                             /\ block.tool_use_id # ""
                 old == transcript.toolUses
                 new == transcript'.toolUses
             IN  /\ MapKeys(new) =
                      MapKeys(old) \cup (IF isUse THEN {block.id} ELSE {})
                 /\ Len(new) = Cardinality(MapKeys(new))
                 /\ \A i \in 1..Len(new) :
                       IF isUse /\ new[i].id = block.id
                       THEN new[i].value = [name |-> block.name,
                                            timestamp |-> entry.timestamp]
                       ELSE \E j \in 1..Len(old) : old[j] = new[i]
                 /\ transcript'.toolResults =
                      transcript.toolResults
                        \cup (IF isResult THEN {block.tool_use_id} ELSE {})
                 /\ (isResult /\ block.tool_use_id \in transcript.toolResults)
                    => transcript'.toolResults = transcript.toolResults
      ]_vars

\* t1 was indexed as Bash, then overwritten by a block with the same id and
\* the name Read from the second record; its result was added once
C40_Witness ==
    /\ Len(transcript.entries) = 3
    /\ transcript.entries[1].content[1] = ToolUseBlock("t1", "Bash")
    /\ transcript.entries[1].type = "assistant"
    /\ transcript.entries[2].content[1] = ToolUseBlock("t1", "Read")
    /\ transcript.entries[2].type = "assistant"
    /\ transcript.entries[3].content[1] = ToolResultBlock("t1")
    /\ transcript.entries[3].type = "user"
    /\ transcript.toolUses =
         <<[id |-> "t1", value |-> [name |-> "Read", timestamp |-> Some(2)]]>>
    /\ transcript.toolResults = {"t1"}

====
